---- MODULE Spec2Model ----
(***************************************************************************)
(* A model of the blend graph, the track store, the curves, the value      *)
(* blending, the clip builder, the property paths and the systems of       *)
(* bevy_prototype_animation (src/src/graph/mod.rs, node.rs, track.rs,      *)
(* hierarchy.rs, application.rs, src/src/curves/fixed.rs,                  *)
(* src/src/curve/mod.rs, compressed.rs, src/src/animatable.rs,             *)
(* src/src/clip.rs, src/src/path/mod.rs, field.rs, src/src/lib.rs).        *)
(*                                                                         *)
(* f32 values are modelled as exact rationals [n, d] (d > 0, lowest        *)
(* terms) extended with the IEEE-754 special values: d = 0 encodes a       *)
(* non-finite value, NaN when n = 0 and +/-infinity when n = +/-1.         *)
(* The graph arithmetic is exact.  The sampling of CurveFixed is evaluated *)
(* both exactly and with every operation rounded to MantissaBits           *)
(* significant bits, a reduced width standing for the 24 bits of f32.      *)
(* Clip times of the graph are modelled as integers.                       *)
(***************************************************************************)
EXTENDS Integers, Sequences, FiniteSets, TLC

VARIABLES
    nodes,      \* AnimationGraph.nodes.nodes : Vec<Node>, node id i at position i + 1
    clips,      \* AnimationGraph.state.clips : Vec<ClipState>, clip id c at position c + 1
    bones,      \* AnimationGraph.clips.bones : HashMap<EntityPath, BoneId>
    tracks,     \* AnimationGraph.clips.tracks : Vec<Bone>, bone id b at position b + 1
    dirty,      \* AnimationGraph.clips.dirty
    pc,         \* the call in progress: "idle", "evaluate" or "set_time"
    stack,      \* evaluate's traversal stack (top at the end)
    pending,    \* set_time's queue (front at the head)
    time_arg,   \* the last set_time's time argument
    visited,    \* instrumentation: the node ids the last set_time has popped
    revisit,    \* instrumentation: the last set_time popped a node id a second time
    pre,        \* instrumentation: the last set_time's node and the clip states it began with
    last,       \* instrumentation: what the last call returned
    registered, \* instrumentation: per clip id, the clip GraphClips::add_clip accepted, or None
    call,       \* a call of a function of the curve, blend, clip or path code: its arguments
                \* and result; for a clip builder, the builder and the adds made to it
    world       \* the bevy World the graph is a component of: the entities' components,
                \* the queued commands and the systems run in the current tick

vars == <<nodes, clips, bones, tracks, dirty, pc, stack, pending, time_arg,
          visited, revisit, pre, last, registered, call, world>>

----------------------------------------------------------------------------
(* Bounds of the model. *)

MaxNodes == 2
MaxEdges == 2
MaxQueue == 4
MaxTime == 1
MaxWeight == 2
DagNodes == 3
DagEdges == 3

----------------------------------------------------------------------------
(* f32 arithmetic on extended rationals. *)

Abs(x) == IF x < 0 THEN -x ELSE x

Sign(x) == IF x < 0 THEN -1 ELSE IF x > 0 THEN 1 ELSE 0

RECURSIVE GCD(_, _)
GCD(a, b) == IF b = 0 THEN a ELSE GCD(b, a % b)

Rat(n, d) ==
    LET g == GCD(Abs(n), Abs(d))
    IN  IF d = 0 THEN [n |-> Sign(n), d |-> 0]
        ELSE [n |-> (Sign(d) * n) \div g, d |-> Abs(d) \div g]

NaN == [n |-> 0, d |-> 0]
Zero == [n |-> 0, d |-> 1]
One == [n |-> 1, d |-> 1]

IsNaN(x) == x.d = 0 /\ x.n = 0
IsInf(x) == x.d = 0 /\ x.n # 0
IsFinite(x) == x.d # 0

\* a != 0.0 : true of NaN and of the infinities
FNeZero(x) == x.n # 0 \/ x.d = 0

FAdd(a, b) ==
    IF IsNaN(a) \/ IsNaN(b) THEN NaN
    ELSE IF IsInf(a) /\ IsInf(b) THEN (IF a.n = b.n THEN a ELSE NaN)
    ELSE IF IsInf(a) THEN a
    ELSE IF IsInf(b) THEN b
    ELSE LET g == GCD(a.d, b.d)
         IN  Rat(a.n * (b.d \div g) + b.n * (a.d \div g), (a.d \div g) * b.d)

FMul(a, b) ==
    IF IsNaN(a) \/ IsNaN(b) THEN NaN
    ELSE IF IsInf(a) \/ IsInf(b)
         THEN (IF a.n = 0 \/ b.n = 0 THEN NaN ELSE [n |-> Sign(a.n) * Sign(b.n), d |-> 0])
    ELSE LET g == GCD(Abs(a.n), b.d)
             h == GCD(Abs(b.n), a.d)
         IN  IF a.n = 0 \/ b.n = 0 THEN Zero
             ELSE Rat((a.n \div g) * (b.n \div h), (a.d \div h) * (b.d \div g))

FDiv(a, b) ==
    IF IsNaN(a) \/ IsNaN(b) THEN NaN
    ELSE IF IsInf(a) THEN (IF IsInf(b) THEN NaN
                           ELSE [n |-> a.n * (IF b.n < 0 THEN -1 ELSE 1), d |-> 0])
    ELSE IF IsInf(b) THEN Zero
    ELSE IF b.n = 0 THEN (IF a.n = 0 THEN NaN ELSE [n |-> Sign(a.n), d |-> 0])
    ELSE LET g == GCD(Abs(a.n), Abs(b.n))
             h == GCD(a.d, b.d)
         IN  IF a.n = 0 THEN Zero
             ELSE Rat((a.n \div g) * (b.d \div h), (a.d \div h) * (b.n \div g))

----------------------------------------------------------------------------
(* Inputs. *)

\* the edge weights callers pass to set_weight
Weights == {Zero, Rat(3, 10), Rat(7, 10), One}

\* the deltas callers pass to advance_time
Deltas == {-1, 1}

\* the times callers pass to set_time
Times == {1}

\* cumulative weights beyond this denominator are not followed
DenLimit == 1000

----------------------------------------------------------------------------
(* src/src/graph/node.rs *)

\* NodeId::ROOT
ROOT == 0

NodeIds == 0 .. (Len(nodes) - 1)
ClipIds == 0 .. (Len(clips) - 1)

\* GraphNodes::get : None is modelled by the guard IsNode(ns, id)
IsNode(ns, id) == id \in 0 .. (Len(ns) - 1)
GraphNodes_get(ns, id) == ns[id + 1]

\* GraphNodes::add : the new arena; the returned id is Len(ns)
GraphNodes_add(ns, node) == Append(ns, node)

BlendNode(flag) == [kind |-> "Blend", inputs |-> <<>>, propogate_time |-> flag]
ClipNode(c) == [kind |-> "Clip", clip |-> c]

IsBlend(node) == node.kind = "Blend"

\* NodeInput::new taking the weight of Default: 0.0
NodeInput_new_default_weight(id) == [node_id |-> id, connected |-> TRUE, weight |-> Zero]

\* NodeInput::new
NodeInput_new(id) == [node_id |-> id, connected |-> TRUE, weight |-> One]

\* NodeInput::is_connected
is_connected(input) == input.connected

\* NodeInput::disconnect
disconnect(input) == [input EXCEPT !.connected = TRUE]

\* NodeInput::reconnect
reconnect(input) == [input EXCEPT !.connected = FALSE]

\* NodeInput::set_weight
set_weight(input, w) == [input EXCEPT !.weight = w]

\* Node::get_input_mut : the position of the edge to input_id, 0 for None
get_input_mut(node, input_id) ==
    IF IsBlend(node) /\ \E i \in 1 .. Len(node.inputs) : node.inputs[i].node_id = input_id
    THEN CHOOSE i \in 1 .. Len(node.inputs) :
            /\ node.inputs[i].node_id = input_id
            /\ \A j \in 1 .. (i - 1) : node.inputs[j].node_id # input_id
    ELSE 0

EdgeCount(ns) ==
    LET RECURSIVE Sum(_)
        Sum(i) == IF i = 0 THEN 0
                  ELSE Sum(i - 1) + (IF IsBlend(ns[i]) THEN Len(ns[i].inputs) ELSE 0)
    IN  Sum(Len(ns))

----------------------------------------------------------------------------
(* src/src/graph/track.rs *)

\* Option<T>
None == [some |-> FALSE]
Some(x) == [some |-> TRUE, v |-> x]

\* the value types of curves (TypeId::of::<T>())
ValueTypes == {"f32", "Vec3"}

\* the property paths of the clips registered: (EntityPath, AccessPath) pairs
Properties ==
    { [entity |-> "hips", access |-> "translation"],
      [entity |-> "hips", access |-> "scale"],
      [entity |-> "arm", access |-> "translation"] }

\* the curves of the clips registered; tag tells two curves of a type apart
CurveTags == {"k"}
ClipCurves == [ty : ValueTypes, tag : CurveTags]

\* AnimationClip : curves, a map from property path to curve
AnimationClips == UNION { [ps -> ClipCurves] : ps \in SUBSET Properties }

\* clips whose curves can be told apart, over the translation properties
TaggedCurves == [ty : ValueTypes, tag : {"k", "l"}]
TaggedClips ==
    UNION { [ps -> TaggedCurves] : ps \in SUBSET { p \in Properties : p.access = "translation" } }

\* ClipCurve::value_type_id / Track::value_type_id
value_type_id(x) == x.ty

\* CurveTrack::new putting the curve first whatever the clip id
CurveTrack_new_first(curve, clip_id) == [ty |-> curve.ty, curves |-> <<Some(curve)>>]

\* CurveTrack::new
CurveTrack_new(curve, clip_id) ==
    [ty |-> curve.ty,
     curves |-> [i \in 1 .. (clip_id + 1) |-> IF i = clip_id + 1 THEN Some(curve) ELSE None]]

\* ClipCurve::into_track
into_track(curve, clip_id) == CurveTrack_new(curve, clip_id)

\* CurveTrack::add_curve
add_curve(track, clip_id, curve) ==
    LET len == IF clip_id >= Len(track.curves) THEN clip_id + 1 ELSE Len(track.curves)
        resized == [i \in 1 .. len |-> IF i <= Len(track.curves) THEN track.curves[i] ELSE None]
    IN  [track EXCEPT !.curves = [resized EXCEPT ![clip_id + 1] = Some(curve)]]

\* CurveTrack::add_generic_curve : the downcast succeeds when the types agree
add_generic_curve(track, clip_id, curve) ==
    IF curve.ty = track.ty
    THEN [ok |-> TRUE, track |-> add_curve(track, clip_id, curve)]
    ELSE [ok |-> FALSE, track |-> track]

\* GraphClips::find_bone : the position of the bone in tracks, 0 for None
find_bone(bs, entity) == IF entity \in DOMAIN bs THEN bs[entity] + 1 ELSE 0

\* GraphClips::add_clip, first loop: every curve agrees with the track stored
\* for its property, if there is one
TypesValid(bs, ts, clip) ==
    \A path \in DOMAIN clip :
        LET b == find_bone(bs, path.entity)
        IN  IF b # 0 /\ path.access \in DOMAIN ts[b].tracks
            THEN value_type_id(clip[path]) = value_type_id(ts[b].tracks[path.access])
            ELSE TRUE

\* GraphClips::add_clip, one iteration of the second loop
InsertCurve(st, clip_id, path, curve) ==
    LET isNew == path.entity \notin DOMAIN st.bones
        bone_id == IF isNew THEN Len(st.tracks) ELSE st.bones[path.entity]
        bs == IF isNew
              THEN [e \in DOMAIN st.bones \cup {path.entity} |->
                        IF e = path.entity THEN bone_id ELSE st.bones[e]]
              ELSE st.bones
        ts == IF isNew
              THEN Append(st.tracks, [id |-> bone_id, path |-> path.entity,
                                      entity |-> None, tracks |-> <<>>])
              ELSE st.tracks
        bone == ts[bone_id + 1]
        bt == IF path.access \in DOMAIN bone.tracks
              THEN [bone.tracks EXCEPT ![path.access] =
                        add_generic_curve(bone.tracks[path.access], clip_id, curve).track]
              ELSE [a \in DOMAIN bone.tracks \cup {path.access} |->
                        IF a = path.access THEN into_track(curve, clip_id)
                        ELSE bone.tracks[a]]
    IN  [bones |-> bs,
         tracks |-> [ts EXCEPT ![bone_id + 1] = [bone EXCEPT !.tracks = bt]],
         dirty |-> (isNew \/ st.dirty),
         panicked |-> (st.panicked \/
                       (path.access \in DOMAIN bone.tracks /\
                        ~add_generic_curve(bone.tracks[path.access], clip_id, curve).ok))]

RECURSIVE InsertCurves(_, _, _, _)
InsertCurves(st, clip_id, clip, order) ==
    IF order = <<>> THEN st
    ELSE InsertCurves(InsertCurve(st, clip_id, Head(order), clip[Head(order)]),
                      clip_id, clip, Tail(order))

\* the orders in which a hash map of the keys ps may be iterated
IterationOrders(ps) ==
    { o \in [1 .. Cardinality(ps) -> ps] : \A i, j \in DOMAIN o : i # j => o[i] # o[j] }

\* GraphClips::add_clip checking each curve only when it inserts it
RECURSIVE InsertCurvesChecked(_, _, _, _)
InsertCurvesChecked(st, clip_id, clip, order) ==
    IF order = <<>> THEN [ret |-> "Ok"] @@ st
    ELSE IF ~TypesValid(st.bones, st.tracks, [p \in {Head(order)} |-> clip[p]])
    THEN [ret |-> "IncorrectType"] @@ st
    ELSE InsertCurvesChecked(InsertCurve(st, clip_id, Head(order), clip[Head(order)]),
                             clip_id, clip, Tail(order))

GraphClips_add_clip_one_loop(bs, ts, d, clip_id, clip, order) ==
    InsertCurvesChecked([bones |-> bs, tracks |-> ts, dirty |-> d, panicked |-> FALSE],
                        clip_id, clip, order)

\* GraphClips::add_clip : order is the hash map's iteration order
GraphClips_add_clip(bs, ts, d, clip_id, clip, order) ==
    IF ~TypesValid(bs, ts, clip)
    THEN [ret |-> "IncorrectType", bones |-> bs, tracks |-> ts, dirty |-> d, panicked |-> FALSE]
    ELSE [ret |-> "Ok"] @@
         InsertCurves([bones |-> bs, tracks |-> ts, dirty |-> d, panicked |-> FALSE],
                      clip_id, clip, order)

----------------------------------------------------------------------------
(* src/src/graph/mod.rs : GraphState *)

\* ClipState::default
ClipState_default == [weight |-> Zero, time |-> 0]

\* GraphState::add_clip without the push
GraphState_add_clip_no_push(cs) == cs

\* GraphState::add_clip : the new clips; the returned id is Len(cs)
GraphState_add_clip(cs) == Append(cs, ClipState_default)

\* GraphState::set_time
GraphState_set_time(cs, clip, time) == [cs EXCEPT ![clip + 1].time = time]

\* GraphState::advance_time skipping the clips of weight 0
GraphState_advance_time_weighted(cs, delta_time) ==
    [i \in 1 .. Len(cs) |->
        IF cs[i].weight = Zero THEN cs[i] ELSE [cs[i] EXCEPT !.time = cs[i].time + delta_time]]

\* GraphState::advance_time
GraphState_advance_time(cs, delta_time) ==
    [i \in 1 .. Len(cs) |-> [cs[i] EXCEPT !.time = cs[i].time + delta_time]]

\* GraphState::clear_weights
clear_weights(cs) == [i \in 1 .. Len(cs) |-> [cs[i] EXCEPT !.weight = Zero]]

\* GraphState::add_weight
add_weight(cs, clip, delta_weight) ==
    [cs EXCEPT ![clip + 1].weight = FAdd(cs[clip + 1].weight, delta_weight)]

\* the sum of the squared weights
RECURSIVE SumSquares(_, _)
SumSquares(cs, i) ==
    IF i = 0 THEN Zero
    ELSE FAdd(SumSquares(cs, i - 1), FMul(cs[i].weight, cs[i].weight))

\* GraphState::normalize_weights. weight_sum is the square root of SumSquares,
\* which is zero exactly when SumSquares is, and NaN exactly when SumSquares
\* is; the division is reached only with weight_sum = 0.0.
normalize_weights(cs) ==
    LET sq == SumSquares(cs, Len(cs))
    IN  IF FNeZero(sq) THEN cs
        ELSE [i \in 1 .. Len(cs) |-> [cs[i] EXCEPT !.weight = FDiv(cs[i].weight, Zero)]]

----------------------------------------------------------------------------
(* src/src/graph/mod.rs : AnimationGraph *)

\* the instrumentation of a call that is no traversal
NoTraversal ==
    /\ visited' = {}
    /\ revisit' = FALSE
    /\ pre' = <<>>
    /\ time_arg' = 0
    /\ UNCHANGED <<pc, stack, pending>>

\* GraphNodes::add of a blend node without inputs
AddBlend(flag) ==
    /\ pc = "idle"
    /\ nodes' = GraphNodes_add(nodes, BlendNode(flag))
    /\ last' = [ret |-> "NodeId", id |-> Len(nodes)]
    /\ NoTraversal
    /\ UNCHANGED <<clips, bones, tracks, dirty, registered, call, world>>

\* AnimationGraph::add_clip on the graph
add_clip(clip, order) ==
    /\ pc = "idle"
    /\ LET clip_id == Len(clips)
           r == GraphClips_add_clip(bones, tracks, dirty, clip_id, clip, order)
       IN  /\ ~r.panicked
           /\ clips' = GraphState_add_clip(clips)
           /\ bones' = r.bones
           /\ tracks' = r.tracks
           /\ dirty' = r.dirty
           /\ nodes' = GraphNodes_add(nodes, ClipNode(clip_id))
           /\ last' = [ret |-> "NodeId", id |-> Len(nodes), clip |-> clip,
                       registered |-> r.ret]
           /\ registered' = Append(registered, IF r.ret = "Ok" THEN Some(clip) ELSE None)
    /\ NoTraversal

\* AnimationGraph::add_clip called on a graph that is in no World
AddClip(clip, order) ==
    /\ add_clip(clip, order)
    /\ UNCHANGED <<call, world>>

\* AnimationGraph::add_input looking for the edge among the connected inputs
add_input_connected_only(ns, target, input) ==
    IF ~IsNode(ns, input)
    THEN [ret |-> "NodeNotFound", id |-> input, nodes |-> ns]
    ELSE IF ~IsNode(ns, target)
    THEN [ret |-> "NodeNotFound", id |-> target, nodes |-> ns]
    ELSE IF /\ get_input_mut(GraphNodes_get(ns, target), input) # 0
            /\ is_connected(GraphNodes_get(ns, target).inputs[
                    get_input_mut(GraphNodes_get(ns, target), input)])
    THEN [ret |-> "InputAlreadyExists", id |-> input, nodes |-> ns]
    ELSE IF IsBlend(GraphNodes_get(ns, target))
    THEN [ret |-> "Ok", id |-> input,
          nodes |-> [ns EXCEPT ![target + 1].inputs = Append(@, NodeInput_new(input))]]
    ELSE [ret |-> "NotBlendNode", id |-> input, nodes |-> ns]

\* AnimationGraph::add_input : what it returns and the arena it leaves
add_input(ns, target, input) ==
    IF ~IsNode(ns, input)
    THEN [ret |-> "NodeNotFound", id |-> input, nodes |-> ns]
    ELSE IF ~IsNode(ns, target)
    THEN [ret |-> "NodeNotFound", id |-> target, nodes |-> ns]
    ELSE IF get_input_mut(GraphNodes_get(ns, target), input) # 0
    THEN [ret |-> "InputAlreadyExists", id |-> input, nodes |-> ns]
    ELSE IF IsBlend(GraphNodes_get(ns, target))
    THEN [ret |-> "Ok", id |-> input,
          nodes |-> [ns EXCEPT ![target + 1].inputs = Append(@, NodeInput_new(input))]]
    ELSE [ret |-> "NotBlendNode", id |-> input, nodes |-> ns]

AddInput(target, input) ==
    /\ pc = "idle"
    /\ LET r == add_input(nodes, target, input)
       IN  /\ nodes' = r.nodes
           /\ last' = [ret |-> r.ret]
    /\ NoTraversal
    /\ UNCHANGED <<clips, bones, tracks, dirty, registered, call, world>>

\* the edge Node::get_input_mut(input) finds in node target
EdgeOf(target, input) ==
    GraphNodes_get(nodes, target).inputs[get_input_mut(GraphNodes_get(nodes, target), input)]

\* a NodeInput method called on that edge, leaving new_input in its place
EdgeCall(target, input, new_input) ==
    /\ pc = "idle"
    /\ nodes' = [nodes EXCEPT ![target + 1].inputs[
                     get_input_mut(GraphNodes_get(nodes, target), input)] = new_input]
    /\ last' = [ret |-> "unit"]
    /\ NoTraversal
    /\ UNCHANGED <<clips, bones, tracks, dirty, registered, call, world>>

\* whether node target has an edge to input for get_input_mut to find
HasInput(target, input) ==
    /\ IsNode(nodes, target)
    /\ get_input_mut(GraphNodes_get(nodes, target), input) # 0

\* NodeInput::disconnect on an edge of the graph
Disconnect(target, input) ==
    /\ HasInput(target, input)
    /\ EdgeCall(target, input, disconnect(EdgeOf(target, input)))

\* NodeInput::reconnect on an edge of the graph
Reconnect(target, input) ==
    /\ HasInput(target, input)
    /\ EdgeCall(target, input, reconnect(EdgeOf(target, input)))

\* NodeInput::set_weight on an edge of the graph
SetWeight(target, input, w) ==
    /\ HasInput(target, input)
    /\ EdgeCall(target, input, set_weight(EdgeOf(target, input), w))

\* AnimationGraph::advance_time
AdvanceTime(delta_time) ==
    /\ pc = "idle"
    /\ clips' = GraphState_advance_time(clips, delta_time)
    /\ last' = [ret |-> "unit"]
    /\ NoTraversal
    /\ UNCHANGED <<nodes, bones, tracks, dirty, registered, call, world>>

\* AnimationGraph::set_time up to its loop
SetTimeBegin(node_id, time) ==
    /\ pc = "idle"
    /\ IF ~IsNode(nodes, node_id)
       THEN /\ last' = [ret |-> "NodeNotFound"]
            /\ NoTraversal
       ELSE /\ last' = [ret |-> "running"]
            /\ pc' = "set_time"
            /\ pending' = <<node_id>>
            /\ time_arg' = time
            /\ visited' = {}
            /\ revisit' = FALSE
            /\ pre' = [node_id |-> node_id, clips |-> clips]
            /\ UNCHANGED stack
    /\ UNCHANGED <<nodes, clips, bones, tracks, dirty, registered, call, world>>

\* the ids set_time would append without the is_connected filter
TimeInputs_unfiltered(node) == [i \in 1 .. Len(node.inputs) |-> node.inputs[i].node_id]

\* the ids set_time appends to pending for a node: its connected inputs
TimeInputs(node) ==
    LET RECURSIVE Ids(_)
        Ids(i) == IF i = 0 THEN <<>>
                  ELSE IF is_connected(node.inputs[i])
                       THEN Append(Ids(i - 1), node.inputs[i].node_id)
                       ELSE Ids(i - 1)
    IN  Ids(Len(node.inputs))

\* AnimationGraph::set_time : one iteration of its loop, and its return when
\* the queue is empty afterwards
SetTimeStep ==
    /\ pc = "set_time"
    /\ pending # <<>>
    /\ LET node_id == Head(pending)
           rest == Tail(pending)
           node == GraphNodes_get(nodes, node_id)
           queue == IF IsNode(nodes, node_id) /\ IsBlend(node) /\ node.propogate_time
                    THEN rest \o TimeInputs(node)
                    ELSE rest
       IN  /\ Len(queue) <= MaxQueue
           /\ clips' = IF IsNode(nodes, node_id) /\ ~IsBlend(node)
                       THEN GraphState_set_time(clips, node.clip, time_arg)
                       ELSE clips
           /\ pending' = queue
           /\ visited' = visited \cup {node_id}
           /\ revisit' = (revisit \/ node_id \in visited)
           /\ pc' = IF queue = <<>> THEN "idle" ELSE "set_time"
           /\ last' = IF queue = <<>> THEN [ret |-> "Ok"] ELSE last
    /\ UNCHANGED <<nodes, bones, tracks, dirty, stack, time_arg, pre, registered, call, world>>

\* AnimationGraph::evaluate up to its loop
EvaluateBegin ==
    /\ pc = "idle"
    /\ clips' = clear_weights(clips)
    /\ stack' = <<[node_id |-> ROOT, cumulative_weight |-> One]>>
    /\ pc' = "evaluate"
    /\ last' = [ret |-> "running"]
    /\ visited' = {}
    /\ revisit' = FALSE
    /\ pre' = <<>>
    /\ time_arg' = 0
    /\ UNCHANGED <<nodes, bones, tracks, dirty, pending, registered, call, world>>

\* the entries evaluate would push if it left out the inputs that are the node
\* popped itself
Pushes_acyclic(node, cw) ==
    LET RECURSIVE Entries(_)
        Entries(i) ==
            IF i = 0 THEN <<>>
            ELSE LET input == node.inputs[i]
                     cumulative_weight == FMul(input.weight, cw)
                 IN  IF /\ is_connected(input) /\ FNeZero(cumulative_weight)
                        /\ nodes[input.node_id + 1] # node
                     THEN Append(Entries(i - 1),
                                 [node_id |-> input.node_id,
                                  cumulative_weight |-> cumulative_weight])
                     ELSE Entries(i - 1)
    IN  Entries(Len(node.inputs))

\* the entries evaluate pushes for a blend node popped with weight cw
Pushes(node, cw) ==
    LET RECURSIVE Entries(_)
        Entries(i) ==
            IF i = 0 THEN <<>>
            ELSE LET input == node.inputs[i]
                     cumulative_weight == FMul(input.weight, cw)
                 IN  IF is_connected(input) /\ FNeZero(cumulative_weight)
                     THEN Append(Entries(i - 1),
                                 [node_id |-> input.node_id,
                                  cumulative_weight |-> cumulative_weight])
                     ELSE Entries(i - 1)
    IN  Entries(Len(node.inputs))

\* AnimationGraph::evaluate : one iteration of its loop, and normalize_weights
\* and the return when the stack is empty afterwards
EvaluateStep ==
    /\ pc = "evaluate"
    /\ stack # <<>>
    /\ LET current == stack[Len(stack)]
           rest == SubSeq(stack, 1, Len(stack) - 1)
           known == IsNode(nodes, current.node_id)
           node == GraphNodes_get(nodes, current.node_id)
           st == IF known /\ IsBlend(node)
                 THEN rest \o Pushes(node, current.cumulative_weight)
                 ELSE rest
           cs == IF known /\ ~IsBlend(node)
                 THEN add_weight(clips, node.clip, current.cumulative_weight)
                 ELSE clips
       IN  /\ Len(st) <= MaxQueue
           /\ \A i \in 1 .. Len(st) : st[i].cumulative_weight.d <= DenLimit
           /\ \A i \in 1 .. Len(cs) : Abs(cs[i].weight.n) <= MaxWeight * cs[i].weight.d
           /\ stack' = st
           /\ clips' = IF st = <<>> THEN normalize_weights(cs) ELSE cs
           /\ pc' = IF st = <<>> THEN "idle" ELSE "evaluate"
           /\ last' = IF st = <<>> THEN [ret |-> "unit"] ELSE last
    /\ UNCHANGED <<nodes, bones, tracks, dirty, pending, time_arg, visited, revisit, pre,
                   registered, call, world>>

----------------------------------------------------------------------------
(* Specifications. *)

\* no function of the curve and blend code has been called
NoCall == [op |-> "none"]

\* the graph is in no World
NoWorld == [has_graph |-> FALSE]

Init ==
    /\ nodes = <<>>
    /\ clips = <<>>
    /\ bones = <<>>
    /\ tracks = <<>>
    /\ dirty = FALSE
    /\ pc = "idle"
    /\ stack = <<>>
    /\ pending = <<>>
    /\ time_arg = 0
    /\ visited = {}
    /\ revisit = FALSE
    /\ pre = <<>>
    /\ last = [ret |-> "unit"]
    /\ registered = <<>>
    /\ call = NoCall
    /\ world = NoWorld

\* the guards that keep the model within n nodes, e edges and clip times
\* within MaxTime
NodeRoom(n) == Len(nodes) < n
EdgeRoom(target, input, e) ==
    add_input(nodes, target, input).ret = "Ok" => EdgeCount(nodes) < e
TimeRoom(delta_time) ==
    \A i \in 1 .. Len(clips) : Abs(clips[i].time + delta_time) <= MaxTime

\* the clip the graph specifications register: one without curves
EmptyClip == <<>>

\* building the graph: nodes, edges and their connection
NextBuild ==
    \/ \E flag \in BOOLEAN : NodeRoom(MaxNodes) /\ AddBlend(flag)
    \/ NodeRoom(MaxNodes) /\ AddClip(EmptyClip, <<>>)
    \/ \E target, input \in 0 .. Len(nodes) :
          EdgeRoom(target, input, MaxEdges) /\ AddInput(target, input)
    \/ \E target, input \in NodeIds : Disconnect(target, input)
    \/ \E target, input \in NodeIds : Reconnect(target, input)

SpecBuild == Init /\ [][NextBuild]_vars

\* playback time: set_time and advance_time on the graphs built
NextTime ==
    \/ \E flag \in BOOLEAN : NodeRoom(MaxNodes) /\ AddBlend(flag)
    \/ NodeRoom(MaxNodes) /\ AddClip(EmptyClip, <<>>)
    \/ \E target, input \in NodeIds :
          EdgeRoom(target, input, MaxEdges) /\ AddInput(target, input)
    \/ \E target, input \in NodeIds : Reconnect(target, input)
    \/ \E node_id \in 0 .. Len(nodes) : \E time \in Times : SetTimeBegin(node_id, time)
    \/ SetTimeStep
    \/ \E delta_time \in Deltas : TimeRoom(delta_time) /\ AdvanceTime(delta_time)

SpecTime == Init /\ [][NextTime]_vars

\* influence weights: evaluate on the graphs built
NextEval ==
    \/ NodeRoom(MaxNodes) /\ AddBlend(TRUE)
    \/ NodeRoom(MaxNodes) /\ AddClip(EmptyClip, <<>>)
    \/ \E target, input \in NodeIds :
          EdgeRoom(target, input, MaxEdges) /\ AddInput(target, input)
    \/ \E target, input \in NodeIds : Disconnect(target, input)
    \/ \E target, input \in NodeIds : Reconnect(target, input)
    \/ \E target, input \in NodeIds : \E w \in Weights : SetWeight(target, input, w)
    \/ EvaluateBegin
    \/ EvaluateStep

SpecEval == Init /\ [][NextEval]_vars

\* registering clips in the track store
NextTracks ==
    \E clip \in AnimationClips : \E order \in IterationOrders(DOMAIN clip) :
        NodeRoom(MaxNodes) /\ AddClip(clip, order)

SpecTracks == Init /\ [][NextTracks]_vars

\* set_time on graphs without cycles: every edge leads to a node added later
NextDag ==
    \/ \E flag \in BOOLEAN : NodeRoom(DagNodes) /\ AddBlend(flag)
    \/ NodeRoom(DagNodes) /\ AddClip(EmptyClip, <<>>)
    \/ \E target, input \in NodeIds :
          /\ target < input
          /\ EdgeRoom(target, input, DagEdges)
          /\ AddInput(target, input)
    \/ \E node_id \in NodeIds : \E time \in Times : SetTimeBegin(node_id, time)
    \/ SetTimeStep

SpecDag == Init /\ [][NextDag]_vars

\* registering clips whose curves can be told apart
NextCurves ==
    \E clip \in TaggedClips : \E order \in IterationOrders(DOMAIN clip) :
        NodeRoom(MaxNodes) /\ AddClip(clip, order)

SpecCurves == Init /\ [][NextCurves]_vars

----------------------------------------------------------------------------
(* Graph vocabulary of the properties. *)

\* the nodes an edge of node id n leads to, for the edges of one kind:
\* "any" edge, "connected" edges, "active" edges (connected, of nonzero
\* weight), "unit" edges (connected, of weight 1.0), and "time" edges (connected, leaving a blend node that propagates
\* time)
Successors(ns, n, kind) ==
    IF ~IsNode(ns, n) \/ ~IsBlend(ns[n + 1]) THEN {}
    ELSE LET node == ns[n + 1]
         IN  { node.inputs[i].node_id : i \in
                 { j \in 1 .. Len(node.inputs) :
                     /\ kind # "any" => node.inputs[j].connected
                     /\ kind = "active" => node.inputs[j].weight # Zero
                     /\ kind = "unit" => node.inputs[j].weight = One
                     /\ kind = "time" => node.propogate_time } }

RECURSIVE Reachable(_, _, _)
Reachable(ns, from, kind) ==
    LET more == from \cup UNION { Successors(ns, n, kind) : n \in from }
    IN  IF more = from THEN from ELSE Reachable(ns, more, kind)

\* the leaf nodes of clip c
Leaves(ns, c) == { n \in 0 .. (Len(ns) - 1) : ~IsBlend(ns[n + 1]) /\ ns[n + 1].clip = c }

\* the sum over the paths of connected edges from node n to a leaf of clip c
\* of the product of the edge weights; fuel bounds the length of the paths
RECURSIVE PathWeight(_, _, _, _)
PathWeight(ns, n, c, fuel) ==
    IF ~IsNode(ns, n) \/ fuel = 0 THEN Zero
    ELSE IF ~IsBlend(ns[n + 1]) THEN (IF ns[n + 1].clip = c THEN One ELSE Zero)
    ELSE LET node == ns[n + 1]
             RECURSIVE Sum(_)
             Sum(i) ==
                 IF i = 0 THEN Zero
                 ELSE IF node.inputs[i].connected /\ node.inputs[i].weight # Zero
                      THEN FAdd(Sum(i - 1),
                                FMul(node.inputs[i].weight,
                                     PathWeight(ns, node.inputs[i].node_id, c, fuel - 1)))
                      ELSE Sum(i - 1)
         IN  Sum(Len(node.inputs))

\* evaluate returns in this step
EvaluateReturns == pc = "evaluate" /\ pc' = "idle"

----------------------------------------------------------------------------
(* C1. After evaluate() every clip's weight is the sum, over the paths of     *)
(* connected edges from node 0 to the clip's leaf, of the product of the edge *)
(* weights, whatever the weights were before; a clip without such a path has  *)
(* weight exactly 0.                                                          *)

C1_EvaluatePathWeights ==
    [][EvaluateReturns =>
          \A c \in ClipIds : clips'[c + 1].weight = PathWeight(nodes, ROOT, c, Len(nodes))]_vars

----------------------------------------------------------------------------
(* C2. After disconnect() the edge reports is_connected() = false, after      *)
(* reconnect() it reports true, and evaluate() gives weight 0 to every clip   *)
(* whose leaf the root reaches, but through no path of connected edges.       *)

C2_DisconnectCutsEdge ==
    /\ [][\A target, input \in NodeIds :
             LET i == get_input_mut(nodes[target + 1], input)
             IN  /\ Disconnect(target, input) => ~is_connected(nodes'[target + 1].inputs[i])
                 /\ Reconnect(target, input) => is_connected(nodes'[target + 1].inputs[i])]_vars
    /\ [][EvaluateReturns =>
             \A c \in ClipIds :
                 /\ Leaves(nodes, c) \cap Reachable(nodes, {ROOT}, "any") # {}
                 /\ Leaves(nodes, c) \cap Reachable(nodes, {ROOT}, "connected") = {}
                 => clips'[c + 1].weight = Zero]_vars

----------------------------------------------------------------------------
(* C3. evaluate() never has on its stack a node the root reaches only through *)
(* edges that are disconnected or of weight 0, and a clip whose leaf the root *)
(* reaches by connected edges, but only through an edge of weight 0, has      *)
(* weight 0 when evaluate() returns.                                          *)

C3_StackIsActive ==
    pc = "evaluate" =>
        \A i \in 1 .. Len(stack) : stack[i].node_id \in Reachable(nodes, {ROOT}, "active")

C3_PrunedSubtreeIsZero ==
    /\ []C3_StackIsActive
    /\ [][EvaluateReturns =>
             \A c \in ClipIds :
                 /\ Leaves(nodes, c) \cap Reachable(nodes, {ROOT}, "connected") # {}
                 /\ Leaves(nodes, c) \cap Reachable(nodes, {ROOT}, "active") = {}
                 => clips'[c + 1].weight = Zero]_vars

----------------------------------------------------------------------------
(* C4. set_time(n, t) on a node of the graph sets the time to t for exactly   *)
(* the clips whose leaf is n or is reached from n by connected edges that     *)
(* leave blend nodes with propagate_time set; the other clips' times and all  *)
(* clip weights are as before the call.                                       *)

\* the last call was a set_time that has returned Ok
SetTimeReturned == pc = "idle" /\ pre # <<>>

----------------------------------------------------------------------------
(* C5. One set_time call pops each node at most once, for every graph         *)
(* add_input can build, graphs with fan-in included.                          *)

C5_VisitsOnce == ~revisit

----------------------------------------------------------------------------
(* C6. advance_time(delta) adds delta to the time of every clip of the graph, *)
(* reachable from the root or not, and changes no weight, node or edge.       *)

C6_AdvanceTimeUniform ==
    [][\A delta_time \in Deltas :
          AdvanceTime(delta_time) =>
              /\ Len(clips') = Len(clips)
              /\ \A c \in ClipIds :
                    /\ clips'[c + 1].time = clips[c + 1].time + delta_time
                    /\ clips'[c + 1].weight = clips[c + 1].weight
              /\ nodes' = nodes]_vars

\* a negative delta has been added to the time of a clip the root does not reach
C6_Witness ==
    /\ pc = "idle"
    /\ \E c \in ClipIds :
          /\ clips[c + 1].time < 0
          /\ Leaves(nodes, c) \cap Reachable(nodes, {ROOT}, "any") = {}

----------------------------------------------------------------------------
(* C7. add_input(target, input) returns NodeNotFound when either id is no     *)
(* node of the graph, else InputAlreadyExists when target has an edge to      *)
(* input, connected or not, else NotBlendNode when target is a clip leaf; on  *)
(* each failure nodes, edges, clip times and clip weights are as before.      *)

\* node target has an edge to input
HasEdge(ns, target, input) ==
    /\ IsBlend(ns[target + 1])
    /\ \E i \in 1 .. Len(ns[target + 1].inputs) : ns[target + 1].inputs[i].node_id = input

AddInputErrors == {"NodeNotFound", "InputAlreadyExists", "NotBlendNode"}

\* what add_input(target, input) returns on the graph as it is
C7_ErrorReturned ==
    \A target, input \in 0 .. Len(nodes) :
        LET r == add_input(nodes, target, input)
        IN  /\ r.ret = "NodeNotFound" <=> (target \notin NodeIds \/ input \notin NodeIds)
            /\ (target \in NodeIds /\ input \in NodeIds) =>
                  /\ r.ret = "InputAlreadyExists" <=> HasEdge(nodes, target, input)
                  /\ ~HasEdge(nodes, target, input) =>
                        (r.ret = "NotBlendNode" <=> ~IsBlend(nodes[target + 1]))
            /\ r.ret \in AddInputErrors => r.nodes = nodes

\* this step is a call of add_input that fails
AddInputFails == pc = "idle" /\ pc' = "idle" /\ last'.ret \in AddInputErrors

C7_AddInputFailures ==
    /\ []C7_ErrorReturned
    /\ [][AddInputFails => UNCHANGED <<nodes, clips, bones, tracks, dirty>>]_vars

\* add_input has returned InputAlreadyExists on a graph whose edges are all
\* disconnected
C7_Witness ==
    /\ last.ret = "InputAlreadyExists"
    /\ \A n \in NodeIds :
          IsBlend(nodes[n + 1]) =>
              \A i \in 1 .. Len(nodes[n + 1].inputs) : ~nodes[n + 1].inputs[i].connected

----------------------------------------------------------------------------
(* C8. A successful add_input(target, input) appends one edge to target's     *)
(* inputs, connected and of weight 1.0, and changes nothing else; a blend     *)
(* node never has two edges to the same input and only blend nodes have       *)
(* inputs.                                                                    *)

C8_OneEdgePerInput ==
    \A n \in NodeIds :
        /\ "inputs" \in DOMAIN nodes[n + 1] <=> IsBlend(nodes[n + 1])
        /\ IsBlend(nodes[n + 1]) =>
              \A i, j \in 1 .. Len(nodes[n + 1].inputs) :
                  nodes[n + 1].inputs[i].node_id = nodes[n + 1].inputs[j].node_id => i = j

\* arena ns2 is arena ns with one edge to input appended to target's inputs,
\* connected and of weight 1.0
AppendsEdge(ns, ns2, target, input) ==
    /\ Len(ns2) = Len(ns)
    /\ \A n \in 0 .. (Len(ns) - 1) : n # target => ns2[n + 1] = ns[n + 1]
    /\ IsBlend(ns[target + 1])
    /\ IsBlend(ns2[target + 1])
    /\ ns2[target + 1].propogate_time = ns[target + 1].propogate_time
    /\ LET old == ns[target + 1].inputs
           new == ns2[target + 1].inputs
       IN  /\ Len(new) = Len(old) + 1
           /\ \A i \in 1 .. Len(old) : new[i] = old[i]
           /\ new[Len(new)].node_id = input
           /\ new[Len(new)].connected
           /\ new[Len(new)].weight = One

\* what a successful add_input(target, input) leaves of the graph as it is
C8_EdgeAppended ==
    \A target, input \in 0 .. Len(nodes) :
        LET r == add_input(nodes, target, input)
        IN  r.ret = "Ok" => AppendsEdge(nodes, r.nodes, target, input)

\* this step is a call of add_input that succeeds
AddInputSucceeds == pc = "idle" /\ pc' = "idle" /\ last'.ret = "Ok"

C8_AddInputAppends ==
    /\ []C8_OneEdgePerInput
    /\ []C8_EdgeAppended
    /\ [][AddInputSucceeds =>
             /\ \E target, input \in NodeIds : AppendsEdge(nodes, nodes', target, input)
             /\ UNCHANGED <<clips, bones, tracks, dirty>>]_vars

\* add_input has just appended a second edge to a blend node
C8_Witness ==
    /\ last.ret = "Ok"
    /\ pre = <<>>
    /\ \E n \in NodeIds :
          /\ IsBlend(nodes[n + 1])
          /\ Len(nodes[n + 1].inputs) = 2
          /\ nodes[n + 1].inputs[2].connected
          /\ nodes[n + 1].inputs[2].weight = One

----------------------------------------------------------------------------
(* C9. add_clip allocates one clip state slot (time 0, weight 0) and one leaf *)
(* node referencing it and returns the leaf's id; no call changes the kind or *)
(* the clip of a node handed out or removes a node or a clip, and every clip  *)
(* id is referenced by exactly one leaf node.                                 *)

C9_OneLeafPerClip ==
    /\ \A c \in ClipIds : Cardinality(Leaves(nodes, c)) = 1
    /\ \A n \in NodeIds : ~IsBlend(nodes[n + 1]) => nodes[n + 1].clip \in ClipIds

\* this step is a call of add_clip
AddClipStep == "clip" \in DOMAIN last' /\ last' # last

C9_AddClipAllocates ==
    /\ []C9_OneLeafPerClip
    /\ [][/\ Len(nodes') >= Len(nodes)
          /\ Len(clips') >= Len(clips)
          /\ \A n \in NodeIds :
                /\ nodes'[n + 1].kind = nodes[n + 1].kind
                /\ ~IsBlend(nodes[n + 1]) => nodes'[n + 1].clip = nodes[n + 1].clip
          /\ AddClipStep =>
                /\ Len(clips') = Len(clips) + 1
                /\ \A c \in ClipIds : clips'[c + 1] = clips[c + 1]
                /\ clips'[Len(clips')] = [weight |-> Zero, time |-> 0]
                /\ Len(nodes') = Len(nodes) + 1
                /\ \A n \in NodeIds : nodes'[n + 1] = nodes[n + 1]
                /\ nodes'[Len(nodes')] = [kind |-> "Clip", clip |-> Len(clips)]
                /\ last'.ret = "NodeId"
                /\ last'.id = Len(nodes)]_vars

\* add_clip has returned the id of the leaf of a second clip
C9_Witness ==
    /\ "clip" \in DOMAIN last
    /\ last.id = Len(nodes) - 1
    /\ Len(clips) = 2
    /\ nodes[last.id + 1] = [kind |-> "Clip", clip |-> 1]

----------------------------------------------------------------------------
(* C10. GraphClips::add_clip returns IncorrectType when some curve of the     *)
(* clip has a value type other than that of the track stored for its          *)
(* property, and then bones, tracks, every track's curves and the dirty flag  *)
(* are as before the call, also for the clip's other properties.              *)

\* the track stored for a property path, as a set of at most one track
StoredTracks(path) ==
    { tracks[b].tracks[path.access] :
        b \in { k \in 1 .. Len(tracks) :
                  tracks[k].path = path.entity /\ path.access \in DOMAIN tracks[k].tracks } }

\* the properties of a clip whose curve has another type than the track stored
Conflicts(clip) ==
    { path \in DOMAIN clip : \E track \in StoredTracks(path) : track.ty # clip[path].ty }

\* what add_clip returns for each clip on the track store as it is
C10_RejectsWithoutChange ==
    \A clip \in AnimationClips : \A order \in IterationOrders(DOMAIN clip) :
        LET r == GraphClips_add_clip(bones, tracks, dirty, Len(clips), clip, order)
        IN  /\ r.ret = "IncorrectType" <=> Conflicts(clip) # {}
            /\ r.ret = "IncorrectType" =>
                  (r.bones = bones /\ r.tracks = tracks /\ r.dirty = dirty)

C10_AtomicRegistration ==
    /\ []C10_RejectsWithoutChange
    /\ [][(AddClipStep /\ last'.registered = "IncorrectType") =>
             UNCHANGED <<bones, tracks, dirty>>]_vars

\* a clip was rejected that has a curve of a conflicting type and a curve for
\* a property without a track
C10_Witness ==
    /\ "clip" \in DOMAIN last
    /\ last.registered = "IncorrectType"
    /\ Conflicts(last.clip) # {}
    /\ \E path \in DOMAIN last.clip : StoredTracks(path) = {}

----------------------------------------------------------------------------
(* C11. After any sequence of clip registrations a property has a track iff  *)
(* a registered clip has a curve for it; the track holds at index c the curve *)
(* of clip c exactly when clip c has one; no curve list gets shorter and no   *)
(* track or bone is removed.                                                  *)

\* the clip ids whose registration succeeded with a curve for path
Contributors(path) ==
    { c \in 0 .. Len(registered) - 1 :
        registered[c + 1].some /\ path \in DOMAIN registered[c + 1].v }

\* C11 (state part): a property has a track iff a registered clip has a curve
\* for it, there is one such track, and the track holds at index c the curve
\* of clip c when clip c has a curve for the property and None otherwise
C11_TracksMirrorClips ==
    \A path \in Properties :
        /\ StoredTracks(path) # {} <=> Contributors(path) # {}
        /\ Cardinality(StoredTracks(path)) <= 1
        /\ \A track \in StoredTracks(path) :
              /\ \A c \in Contributors(path) : c < Len(track.curves)
              /\ \A c \in 0 .. Len(track.curves) - 1 :
                    track.curves[c + 1] =
                        IF c \in Contributors(path)
                        THEN Some(registered[c + 1].v[path])
                        ELSE None

\* no bone and no track is removed and no curve list gets shorter in a step
NothingRemoved ==
    /\ DOMAIN bones \subseteq DOMAIN bones'
    /\ \A e \in DOMAIN bones : bones'[e] = bones[e]
    /\ Len(tracks') >= Len(tracks)
    /\ \A b \in 1 .. Len(tracks) :
          /\ tracks'[b].id = tracks[b].id
          /\ tracks'[b].path = tracks[b].path
          /\ DOMAIN tracks[b].tracks \subseteq DOMAIN tracks'[b].tracks
          /\ \A a \in DOMAIN tracks[b].tracks :
                Len(tracks'[b].tracks[a].curves) >= Len(tracks[b].tracks[a].curves)

\* C11: after any sequence of clip registrations the track store mirrors the
\* clips whose registration succeeded (C11_TracksMirrorClips), and no step
\* removes a bone or a track or shortens a curve list
C11_TrackLifecycle ==
    /\ []C11_TracksMirrorClips
    /\ [][NothingRemoved]_vars

\* two clips are registered; a track holds the curves of both, which differ,
\* and another track holds a curve of the second clip only
C11_Witness ==
    /\ Len(registered) = 2
    /\ \E p, q \in Properties :
          /\ Contributors(p) = {0, 1}
          /\ registered[1].v[p] # registered[2].v[p]
          /\ Contributors(q) = {1}
          /\ \E track \in StoredTracks(q) : track.curves = <<None, Some(registered[2].v[q])>>

----------------------------------------------------------------------------
(* f32 arithmetic of the curve and blend code. *)

\* the f32 of an integer (usize as f32, i32 as f32, f32::from(u16))
F(i) == Rat(i, 1)

FNeg(a) == [a EXCEPT !.n = -a.n]

FSub(a, b) == FAdd(a, FNeg(b))

\* a < b : false when either is NaN
FLt(a, b) ==
    /\ ~IsNaN(a) /\ ~IsNaN(b)
    /\ IF IsInf(a) THEN a.n < 0 /\ a # b
       ELSE IF IsInf(b) THEN b.n > 0
       ELSE LET g == GCD(a.d, b.d)
            IN  a.n * (b.d \div g) < b.n * (a.d \div g)

\* a == b : false when either is NaN
FEq(a, b) == ~IsNaN(a) /\ ~IsNaN(b) /\ a = b

\* f32::max : the other operand when one is NaN
FMax(a, b) == IF IsNaN(a) THEN b ELSE IF IsNaN(b) THEN a ELSE IF FLt(a, b) THEN b ELSE a

\* f32::clamp(min, max) for min <= max : NaN stays NaN
FClamp(x, lo, hi) == IF IsNaN(x) THEN x ELSE IF FLt(x, lo) THEN lo ELSE IF FLt(hi, x) THEN hi ELSE x

\* f32::trunc
FTrunc(x) == IF x.d = 0 THEN x ELSE F(Sign(x.n) * (Abs(x.n) \div x.d))

\* f32::round : to the nearest integer, halves away from zero
FRound(x) == IF x.d = 0 THEN x ELSE F(Sign(x.n) * ((2 * Abs(x.n) + x.d) \div (2 * x.d)))

\* f32 as usize / as u16 : truncates, saturates at the bounds of the type,
\* NaN gives 0
AsUnsigned(x, max) ==
    IF IsNaN(x) THEN 0
    ELSE IF IsInf(x) THEN (IF x.n > 0 THEN max ELSE 0)
    ELSE IF x.n < 0 THEN 0
    ELSE IF x.n \div x.d > max THEN max ELSE x.n \div x.d

\* f32 as i32, within the range of the model's frame offsets
AsInt(x) == IF x.d = 0 THEN 0 ELSE Sign(x.n) * (Abs(x.n) \div x.d)

\* the mantissa widths the curve arithmetic is evaluated at: Exact rounds
\* nothing, a width p > 0 rounds the result of every operation to p bits
Exact == 0

RECURSIVE Pow2(_)
Pow2(k) == IF k = 0 THEN 1 ELSE 2 * Pow2(k - 1)

\* n / d > 0 rounded to p significant bits, ties to even
RECURSIVE RoundPos(_, _, _)
RoundPos(n, d, p) ==
    IF n >= d * Pow2(p) THEN FMul(F(2), RoundPos(n, 2 * d, p))
    ELSE IF n < d * Pow2(p - 1) THEN FDiv(RoundPos(2 * n, d, p), F(2))
    ELSE LET q == n \div d
             r == n % d
         IN  IF 2 * r > d \/ (2 * r = d /\ q % 2 = 1) THEN F(q + 1) ELSE F(q)

\* the result x of an operation as an f32 of p mantissa bits (the exponent
\* range is not bounded)
Fl(x, p) ==
    IF p = Exact \/ x.d = 0 \/ x.n = 0 THEN x
    ELSE IF x.n < 0 THEN FNeg(RoundPos(-x.n, x.d, p))
    ELSE RoundPos(x.n, x.d, p)

----------------------------------------------------------------------------
(* src/src/animatable.rs *)

\* BlendInput<T>
BlendInput(weight, value, additive) ==
    [weight |-> weight, value |-> value, additive |-> additive]

\* <f32 as Animatable>::interpolate
interpolate(a, b, t) == FAdd(FMul(a, FSub(One, t)), FMul(b, t))

\* the same inputs folded from the last input to the first
RECURSIVE blend_from_right(_, _)
blend_from_right(value, inputs) ==
    IF inputs = <<>> THEN value
    ELSE LET input == Head(inputs)
             rest == blend_from_right(value, Tail(inputs))
         IN  IF input.additive
             THEN FAdd(rest, FMul(input.weight, input.value))
             ELSE interpolate(rest, input.value, input.weight)

\* <f32 as Animatable>::blend : the fold from Default::default()
RECURSIVE blend_from(_, _)
blend_from(value, inputs) ==
    IF inputs = <<>> THEN value
    ELSE LET input == Head(inputs)
         IN  blend_from(IF input.additive
                        THEN FAdd(value, FMul(input.weight, input.value))
                        ELSE interpolate(value, input.value, input.weight),
                        Tail(inputs))

blend(inputs) == blend_from(Zero, inputs)

\* Vec3A::ZERO
Vec3A_ZERO == <<Zero, Zero, Zero>>

\* <Vec3A as Animatable>::interpolate : the operators of glam act per component
Vec3A_interpolate(a, b, t) == [i \in DOMAIN a |-> interpolate(a[i], b[i], t)]

\* <Vec3 as Animatable>::blend : the fold over Vec3A from Vec3A::ZERO
RECURSIVE Vec3_blend_from(_, _)
Vec3_blend_from(value, inputs) ==
    IF inputs = <<>> THEN value
    ELSE LET input == Head(inputs)
         IN  Vec3_blend_from(
                 IF input.additive
                 THEN [i \in DOMAIN value |->
                          FAdd(value[i], FMul(input.weight, input.value[i]))]
                 ELSE Vec3A_interpolate(value, input.value, input.weight),
                 Tail(inputs))

Vec3_blend(inputs) == Vec3_blend_from(Vec3A_ZERO, inputs)

----------------------------------------------------------------------------
(* src/src/curves/fixed.rs *)

\* a panic in place of a returned value
Panic == [panic |-> TRUE]
IsPanic(x) == "panic" \in DOMAIN x

\* CurveFixed::from_keyframes_with_offset
from_keyframes_with_offset(frame_rate, frame_offset, keyframes) ==
    [frame_rate |-> frame_rate,
     negative_frame_offset |-> FNeg(F(frame_offset)),
     keyframes |-> keyframes]

\* CurveFixed::keyframe_count
keyframe_count(curve) == Len(curve.keyframes)

\* <f32 as Lerp>::lerp_unclamped at mantissa width p
lerp_unclamped(a, b, t, p) == Fl(FAdd(a, Fl(FMul(t, Fl(FSub(b, a), p)), p)), p)

\* the largest usize the model's casts saturate at
USIZE_MAX == 1000000

\* CurveFixed::sample : the clamped frame_time split into frame.trunc() as usize
\* and the rest
SplitFrameTime(frame_time, p) ==
    [frame_idx |-> AsUnsigned(FTrunc(frame_time), USIZE_MAX),
     time |-> Fl(FSub(frame_time, FTrunc(frame_time)), p)]

\* CurveFixed::sample, each operation rounded to mantissa width p: the indices
\* of the keyframes read and the interpolation time
FixedFrame(curve, time, p) ==
    SplitFrameTime(FClamp(Fl(FAdd(Fl(FMul(time, curve.frame_rate), p),
                                  curve.negative_frame_offset), p),
                          Zero, F(keyframe_count(curve) - 1)),
                   p)

\* CurveFixed::sample : the last keyframe, or the keyframes at f.frame_idx and
\* after it interpolated at f.time
KeyframeAt(curve, f, p) ==
    IF f.frame_idx >= keyframe_count(curve) - 1
    THEN curve.keyframes[Len(curve.keyframes)]
    ELSE lerp_unclamped(curve.keyframes[f.frame_idx + 1],
                        curve.keyframes[f.frame_idx + 2], f.time, p)

\* CurveFixed::sample at mantissa width p
CurveFixed_sample_at(curve, time, p) ==
    IF curve.keyframes = <<>> THEN Panic
    ELSE KeyframeAt(curve, FixedFrame(curve, time, p), p)

\* CurveFixed::sample
CurveFixed_sample(curve, time) == CurveFixed_sample_at(curve, time, Exact)

\* CurveFixed::duration at mantissa width p
CurveFixed_duration_at(curve, p) ==
    FMax(Fl(FDiv(Fl(FSub(Fl(FSub(F(keyframe_count(curve)), One), p),
                         curve.negative_frame_offset), p),
                 curve.frame_rate), p),
         Zero)

\* CurveFixed::duration
CurveFixed_duration(curve) == CurveFixed_duration_at(curve, Exact)

\* CurveFixed::time_offset at mantissa width p
CurveFixed_time_offset_at(curve, p) ==
    Fl(FDiv(FNeg(curve.negative_frame_offset), curve.frame_rate), p)

\* CurveFixed::time_offset
CurveFixed_time_offset(curve) == CurveFixed_time_offset_at(curve, Exact)

----------------------------------------------------------------------------
(* src/src/graph/track.rs : CurveTrack<f32>::sample_and_blend, blend_via_reflect *)

\* the inputs sample_and_blend would hand to blend without the weight filter
RECURSIVE BlendInputs_any_weight(_, _, _)
BlendInputs_any_weight(track, cs, i) ==
    IF i > Len(cs) \/ i > Len(track.curves) THEN <<>>
    ELSE IF track.curves[i].some
    THEN <<BlendInput(cs[i].weight,
                      CurveFixed_sample(track.curves[i].v, F(cs[i].time)),
                      FALSE)>>
         \o BlendInputs_any_weight(track, cs, i + 1)
    ELSE BlendInputs_any_weight(track, cs, i + 1)

\* the inputs sample_and_blend hands to blend: the clip states zipped with the
\* curves from position i on, filtered and mapped
RECURSIVE BlendInputs(_, _, _)
BlendInputs(track, cs, i) ==
    IF i > Len(cs) \/ i > Len(track.curves) THEN <<>>
    ELSE IF FNeZero(cs[i].weight) /\ track.curves[i].some
    THEN <<BlendInput(cs[i].weight,
                      CurveFixed_sample(track.curves[i].v, F(cs[i].time)),
                      FALSE)>>
         \o BlendInputs(track, cs, i + 1)
    ELSE BlendInputs(track, cs, i + 1)

\* T::blend(inputs) of the sampled inputs
BlendSampled(inputs) ==
    IF \E i \in DOMAIN inputs : IsPanic(inputs[i].value) THEN Panic
    ELSE blend(inputs)

\* CurveTrack::sample_and_blend : panics when a curve it samples panics
sample_and_blend(track, cs) == BlendSampled(BlendInputs(track, cs, 1))

\* the value applied to the output without comparing the two
ApplyAlways(value, output) ==
    IF IsPanic(value)
    THEN [ret |-> "panic", output |-> output, applied |-> FALSE]
    ELSE [ret |-> "Ok", output |-> [output EXCEPT !.value = value], applied |-> TRUE]

\* CurveTrack::blend_via_reflect : the value applied to the output when
\* reflect_partial_eq does not find them equal
ApplyIfChanged(value, output) ==
    IF IsPanic(value)
    THEN [ret |-> "panic", output |-> output, applied |-> FALSE]
    ELSE IF ~FEq(value, output.value)
    THEN [ret |-> "Ok", output |-> [output EXCEPT !.value = value], applied |-> TRUE]
    ELSE [ret |-> "Ok", output |-> output, applied |-> FALSE]

\* CurveTrack::blend_via_reflect applying the value without comparing it
blend_via_reflect_uncompared(track, cs, output) ==
    IF output.ty = value_type_id(track)
    THEN ApplyAlways(sample_and_blend(track, cs), output)
    ELSE [ret |-> "IncorrectType", output |-> output, applied |-> FALSE]

\* CurveTrack::blend_via_reflect : output is the target, a value and its type;
\* applied tells whether output.apply was called
blend_via_reflect(track, cs, output) ==
    IF output.ty = value_type_id(track)
    THEN ApplyIfChanged(sample_and_blend(track, cs), output)
    ELSE [ret |-> "IncorrectType", output |-> output, applied |-> FALSE]

----------------------------------------------------------------------------
(* Calls of the track functions on drawn arguments. *)

MaxClips == 2

\* the curves of the tracks sampled: a ramp, a constant and one without keyframes
FixedCurves ==
    { from_keyframes_with_offset(One, 0, <<Zero, F(2)>>),
      from_keyframes_with_offset(One, 0, <<One>>),
      from_keyframes_with_offset(One, 0, <<>>) }

\* the clip states: weights as evaluate leaves them, times as set_time does
BlendWeights == {Zero, Rat(1, 2), One, NaN}
BlendTimes == {0, 1}
ClipStates == [weight : BlendWeights, time : BlendTimes]
GraphStates == UNION { [1 .. n -> ClipStates] : n \in 0 .. MaxClips }

\* the tracks of f32 curves CurveTrack::new and add_curve build
F32Tracks ==
    { [ty |-> "f32", curves |-> cv] :
        cv \in { c \in UNION { [1 .. n -> {None} \cup { Some(k) : k \in FixedCurves }] :
                               n \in 1 .. MaxClips } :
                 c[Len(c)].some } }

\* the targets blend_via_reflect is given
Outputs ==
    { [ty |-> "f32", value |-> Zero], [ty |-> "f32", value |-> One],
      [ty |-> "Vec3", value |-> Vec3A_ZERO] }

TrackArgs == [op : {"track_args"}, track : F32Tracks, state : GraphStates, output : Outputs]

\* the graph is left as it is
GraphUnchanged ==
    UNCHANGED <<nodes, clips, bones, tracks, dirty, pc, stack, pending, time_arg,
                visited, revisit, pre, last, registered, world>>

\* the state in which the function call drawn from args is about to be made
InitCall(args) ==
    /\ nodes = <<>>
    /\ clips = <<>>
    /\ bones = <<>>
    /\ tracks = <<>>
    /\ dirty = FALSE
    /\ pc = "idle"
    /\ stack = <<>>
    /\ pending = <<>>
    /\ time_arg = 0
    /\ visited = {}
    /\ revisit = FALSE
    /\ pre = <<>>
    /\ last = [ret |-> "unit"]
    /\ registered = <<>>
    /\ call \in args
    /\ world = NoWorld

\* CurveTrack::sample_and_blend called
SampleAndBlend ==
    /\ call.op = "track_args"
    /\ call' = [op |-> "sample_and_blend", track |-> call.track, state |-> call.state,
                inputs |-> BlendInputs(call.track, call.state, 1),
                ret |-> sample_and_blend(call.track, call.state)]
    /\ GraphUnchanged

\* CurveTrack::blend_via_reflect called
BlendViaReflect ==
    /\ call.op = "track_args"
    /\ call' = [op |-> "blend_via_reflect", track |-> call.track, state |-> call.state,
                output |-> call.output,
                value |-> sample_and_blend(call.track, call.state),
                ret |-> blend_via_reflect(call.track, call.state, call.output)]
    /\ GraphUnchanged

NextBlend == SampleAndBlend \/ BlendViaReflect

SpecBlend == InitCall(TrackArgs) /\ [][NextBlend]_vars

----------------------------------------------------------------------------
(* C12. sample_and_blend hands blend one input (weight, curve.sample(clip     *)
(* time), additive) for each clip id of nonzero weight that has a curve in    *)
(* the track, in ascending order of clip id, and no input for a clip of       *)
(* weight zero or without a curve.                                            *)

\* the clip ids of nonzero weight with a curve in the track
Contributing(track, cs) ==
    { c \in 0 .. Len(cs) - 1 :
        cs[c + 1].weight # Zero /\ c < Len(track.curves) /\ track.curves[c + 1].some }

\* the elements of a set of integers in ascending order
RECURSIVE Ascending(_)
Ascending(S) ==
    IF S = {} THEN <<>>
    ELSE LET m == CHOOSE x \in S : \A y \in S : x <= y
         IN  <<m>> \o Ascending(S \ {m})

C12_OneInputPerContributingClip ==
    call.op = "sample_and_blend" =>
        LET ids == Ascending(Contributing(call.track, call.state))
        IN  /\ Len(call.inputs) = Len(ids)
            /\ \A i \in DOMAIN ids :
                  LET clip == call.state[ids[i] + 1]
                      curve == call.track.curves[ids[i] + 1].v
                  IN  /\ call.inputs[i].weight = clip.weight
                      /\ call.inputs[i].value = CurveFixed_sample(curve, F(clip.time))
                      /\ call.inputs[i].additive = FALSE
            /\ (\A i \in DOMAIN call.inputs : ~IsPanic(call.inputs[i].value))
                  => call.ret = blend(call.inputs)

\* a clip of weight zero with a curve is passed over and the next clip, of
\* nonzero weight, contributes the only input
C12_Witness ==
    /\ call.op = "sample_and_blend"
    /\ Len(call.state) = 2 /\ Len(call.track.curves) = 2
    /\ call.state[1].weight = Zero /\ call.track.curves[1].some
    /\ call.state[2].weight = Rat(1, 2)
    /\ Len(call.inputs) = 1
    /\ call.inputs[1].value = F(2)

----------------------------------------------------------------------------
(* C13. blend_via_reflect writes the target only when the target's type is    *)
(* the track's value type and the blended value differs from the target's     *)
(* value; with another type it returns IncorrectType and leaves the target as *)
(* it is; with an equal value it returns Ok without writing.                  *)

\* f32 equality of the blended value and the target's value
SameValue(value, output) == value = output.value /\ ~IsNaN(value)

C13_WritesOnlyOnChange ==
    (call.op = "blend_via_reflect" /\ call.ret.ret # "panic") =>
        LET r == call.ret
            typed == call.output.ty = call.track.ty
        IN  /\ ~typed => (r.ret = "IncorrectType" /\ ~r.applied /\ r.output = call.output)
            /\ typed => r.ret = "Ok"
            /\ (typed /\ SameValue(call.value, call.output)) =>
                  (~r.applied /\ r.output = call.output)
            /\ r.applied <=> (typed /\ ~SameValue(call.value, call.output))
            /\ r.applied => r.output = [call.output EXCEPT !.value = call.value]
            /\ ~r.applied => r.output = call.output

\* the clips blend to 1.0, which is the value the f32 target holds
C13_Witness ==
    /\ call.op = "blend_via_reflect"
    /\ call.ret.ret = "Ok"
    /\ ~call.ret.applied
    /\ call.value = One
    /\ call.output = [ty |-> "f32", value |-> One]
    /\ Contributing(call.track, call.state) # {}

----------------------------------------------------------------------------
(* Calls of CurveFixed::sample on drawn arguments. *)

MaxKeyframes == 3
MaxRate == 7
MantissaBits == 4

\* the keyframe values of the curves sampled
KeyValues == {Zero, One, F(2)}
Keyframes == UNION { [1 .. n -> KeyValues] : n \in 0 .. MaxKeyframes }

\* frames per second, frame offsets and sampling times
FrameRates == { F(r) : r \in 1 .. MaxRate }
FrameOffsets == {-3, 0, 7}
SampleTimes == { Rat(t, 2) : t \in -5 .. 9 }

\* the mantissa widths the calls are evaluated at
Widths == {Exact, MantissaBits}

FixedArgs ==
    { [op |-> "fixed_args",
       curve |-> from_keyframes_with_offset(r, o, k),
       time |-> t] :
        r \in FrameRates, o \in FrameOffsets, k \in Keyframes, t \in SampleTimes }

\* curve.sample(time) called
Sample(p) ==
    /\ call.op = "fixed_args"
    /\ call' = [op |-> "sample", curve |-> call.curve, time |-> call.time, p |-> p,
                ret |-> CurveFixed_sample_at(call.curve, call.time, p)]
    /\ GraphUnchanged

\* curve.sample(curve.time_offset()) called
SampleFirst(p) ==
    /\ call.op = "fixed_args"
    /\ LET time == CurveFixed_time_offset_at(call.curve, p)
       IN  call' = [op |-> "sample_first", curve |-> call.curve, time |-> time, p |-> p,
                    ret |-> CurveFixed_sample_at(call.curve, time, p)]
    /\ GraphUnchanged

\* curve.sample(curve.time_offset() + (N - 1) as f32 / curve.frame_rate()) called
SampleLast(p) ==
    /\ call.op = "fixed_args"
    /\ call.curve.keyframes # <<>>
    /\ LET time == Fl(FAdd(CurveFixed_time_offset_at(call.curve, p),
                           Fl(FDiv(F(keyframe_count(call.curve) - 1),
                                   call.curve.frame_rate), p)), p)
       IN  call' = [op |-> "sample_last", curve |-> call.curve, time |-> time, p |-> p,
                    ret |-> CurveFixed_sample_at(call.curve, time, p)]
    /\ GraphUnchanged

NextFixed ==
    \/ \E p \in Widths : Sample(p)
    \/ \E p \in Widths : SampleFirst(p)
    \/ \E p \in Widths : SampleLast(p)

SpecFixed == InitCall(FixedArgs) /\ [][NextFixed]_vars

----------------------------------------------------------------------------
(* C14. For a CurveFixed of N >= 2 keyframes at frame rate R,                 *)
(* sample(time_offset) is keyframes[0], sample(time_offset + (N-1)/R) is      *)
(* keyframes[N-1], and a sample before the first or after the last keyframe   *)
(* is the first respectively the last keyframe.                               *)

\* the times of the first and of the last keyframe of a curve
FirstTime(curve) == FDiv(FNeg(curve.negative_frame_offset), curve.frame_rate)
LastTime(curve) ==
    FDiv(FSub(F(Len(curve.keyframes) - 1), curve.negative_frame_offset), curve.frame_rate)

\* what C14 says of a call of sample
BoundariesExact(c) ==
    LET N == Len(c.curve.keyframes)
    IN  N >= 2 =>
          /\ c.op = "sample_first" => c.ret = c.curve.keyframes[1]
          /\ c.op = "sample_last" => c.ret = c.curve.keyframes[N]
          /\ (c.op = "sample" /\ FLt(c.time, FirstTime(c.curve))) =>
                c.ret = c.curve.keyframes[1]
          /\ (c.op = "sample" /\ FLt(LastTime(c.curve), c.time)) =>
                c.ret = c.curve.keyframes[N]

C14_BoundaryKeyframesExact ==
    call.op \in {"sample", "sample_first", "sample_last"} => BoundariesExact(call)

\* the same without the rounding of f32 operations
C14_ExactArithmetic ==
    (call.op \in {"sample", "sample_first", "sample_last"} /\ call.p = Exact)
        => BoundariesExact(call)

----------------------------------------------------------------------------
(* src/src/curve/compressed.rs *)

\* u16::MAX
U16_MAX == 65535

\* the least and the greatest of a nonempty sequence of values without NaN
RECURSIVE min_value(_)
min_value(values) ==
    IF Len(values) = 1 THEN values[1]
    ELSE LET m == min_value(Tail(values))
         IN  IF FLt(values[1], m) THEN values[1] ELSE m

RECURSIVE max_value(_)
max_value(values) ==
    IF Len(values) = 1 THEN values[1]
    ELSE LET m == max_value(Tail(values))
         IN  IF FLt(m, values[1]) THEN values[1] ELSE m

\* CompressedFloat32Storage::quantize past its assertions
QuantizedStorage(values) ==
    IF min_value(values) = max_value(values)
    THEN [kind |-> "Static", frames |-> Len(values), value |-> min_value(values)]
    ELSE LET increment == FDiv(FSub(max_value(values), min_value(values)), F(U16_MAX))
         IN  [kind |-> "Quantized",
              frames |-> [i \in DOMAIN values |->
                            AsUnsigned(FDiv(FSub(values[i], min_value(values)), increment),
                                       U16_MAX)],
              min_value |-> min_value(values),
              increment |-> increment]

\* CompressedFloat32Storage::quantize without the assertion on NaN
Storage_quantize_unchecked(values) ==
    IF values = <<>> THEN Panic ELSE QuantizedStorage(values)

\* CompressedFloat32Storage::quantize
Storage_quantize(values) ==
    IF values = <<>> THEN Panic
    ELSE IF \E i \in DOMAIN values : IsNaN(values[i]) THEN Panic
    ELSE QuantizedStorage(values)

\* CompressedFloat32Storage::len
Storage_len(storage) ==
    IF storage.kind = "Static" THEN storage.frames ELSE Len(storage.frames)

\* CompressedFloat32Storage::sample, Quantized arm: the index of the frame
\* read and the interpolation time
StorageFrame(storage, frame_rate, time, time_offset) ==
    LET frame_time0 == FSub(FMul(time, frame_rate), time_offset)
        frame_time == FClamp(frame_time0, Zero, F(Len(storage.frames) - 1))
        frame == FTrunc(frame_time)
    IN  [frame_idx |-> AsUnsigned(frame, USIZE_MAX), time |-> FSub(frame_time, frame)]

\* min_value + f32::from(frames[i]) * increment
Dequantize(storage, i) ==
    FAdd(storage.min_value, FMul(F(storage.frames[i + 1]), storage.increment))

\* CompressedFloat32Storage::sample
Storage_sample(storage, frame_rate, time, time_offset) ==
    IF storage.kind = "Static" THEN storage.value
    ELSE LET f == StorageFrame(storage, frame_rate, time, time_offset)
         IN  IF f.frame_idx >= Len(storage.frames) - 1
             THEN Dequantize(storage, Len(storage.frames) - 1)
             ELSE interpolate(Dequantize(storage, f.frame_idx),
                              Dequantize(storage, f.frame_idx + 1), f.time)

\* CompressedFloat32Curve::quantize
CompressedFloat32Curve_quantize(src) ==
    IF IsPanic(Storage_quantize(src.keyframes)) THEN Panic
    ELSE [frame_rate |-> src.frame_rate,
          time_offset |-> CurveFixed_time_offset(src),
          values |-> Storage_quantize(src.keyframes)]

\* <CompressedFloat32Curve as Curve<f32>>::sample
CompressedFloat32Curve_sample(curve, time) ==
    Storage_sample(curve.values, curve.frame_rate, time, curve.time_offset)

\* the component c of the keyframes of a vector curve
Component(keyframes, c) == [k \in DOMAIN keyframes |-> keyframes[k][c]]

\* the components of the source the channels x, y, (z, (w)) are quantized from:
\* CompressedFloat32x2Curve / x3Curve / x4Curve ::quantize
ChannelSource(n) == IF n = 4 THEN <<1, 2, 3, 3>> ELSE [c \in 1 .. n |-> c]

\* the number of components of the source keyframes quantize takes:
\* CurveFixed<Vec2>, CurveFixed<Vec3>, and CurveFixed<Vec3> for x4
SourceWidth(n) == IF n = 4 THEN 3 ELSE n

\* CompressedFloat32x{n}Curve::quantize
CompressedVec_quantize(n, src) ==
    IF src.keyframes = <<>> THEN Panic
    ELSE [frame_rate |-> src.frame_rate,
          time_offset |-> CurveFixed_time_offset(src),
          channels |-> [c \in 1 .. n |->
                          Storage_quantize(Component(src.keyframes, ChannelSource(n)[c]))]]

\* <CompressedFloat32x{n}Curve as Curve<Vec{n}>>::sample
CompressedVec_sample(curve, time) ==
    [c \in DOMAIN curve.channels |->
        Storage_sample(curve.channels[c], curve.frame_rate, time, curve.time_offset)]

----------------------------------------------------------------------------
(* Calls of the compressed curves on drawn arguments. *)

MaxVecKeyframes == 2

\* the sample sequences quantize is given
QuantizeArgs ==
    [op : {"quantize_args"},
     values : UNION { [1 .. n -> KeyValues \cup {NaN}] : n \in 0 .. MaxKeyframes }]

\* the vector curves quantized: the curve type's width n, a source of the
\* width its quantize takes, and a sampling time
VecArgs ==
    { [op |-> "vec_args", n |-> n,
       curve |-> from_keyframes_with_offset(r, 0, k), time |-> t] :
        n \in {2, 3, 4},
        r \in {One, F(2)},
        k \in UNION { [1 .. m -> UNION { [1 .. w -> {Zero, One}] : w \in {2, 3} }] :
                      m \in 1 .. MaxVecKeyframes },
        t \in {Zero, Rat(1, 2), One} }

\* CompressedFloat32Storage::quantize called
Quantize ==
    /\ call.op = "quantize_args"
    /\ call' = [op |-> "quantize", values |-> call.values,
                ret |-> Storage_quantize(call.values)]
    /\ GraphUnchanged

\* CompressedFloat32Curve::quantize(src).sample(time) called
CompressedSample ==
    /\ call.op = "fixed_args"
    /\ LET curve == CompressedFloat32Curve_quantize(call.curve)
       IN  call' = [op |-> "compressed_sample", src |-> call.curve, time |-> call.time,
                    curve |-> curve,
                    ret |-> IF IsPanic(curve) THEN Panic
                            ELSE CompressedFloat32Curve_sample(curve, call.time)]
    /\ GraphUnchanged

\* CompressedFloat32x{n}Curve::quantize(src).sample(time) called; src has the
\* keyframe type that quantize takes
CompressedVecSample ==
    /\ call.op = "vec_args"
    /\ \A k \in DOMAIN call.curve.keyframes :
          Len(call.curve.keyframes[k]) = SourceWidth(call.n)
    /\ LET curve == CompressedVec_quantize(call.n, call.curve)
       IN  call' = [op |-> "compressed_vec_sample", n |-> call.n, src |-> call.curve,
                    time |-> call.time, curve |-> curve,
                    ret |-> CompressedVec_sample(curve, call.time)]
    /\ GraphUnchanged

NextCompressed ==
    \/ \E p \in Widths : Sample(p)
    \/ Quantize
    \/ CompressedSample
    \/ CompressedVecSample

SpecCompressed ==
    InitCall(FixedArgs \cup QuantizeArgs \cup VecArgs) /\ [][NextCompressed]_vars

----------------------------------------------------------------------------
(* C15. Sampling a CurveFixed without keyframes panics, and quantize panics   *)
(* on an empty sample sequence and on a NaN sample, so that no compressed     *)
(* curve is built from such input; on other input they return a value.        *)

C15_PreconditionsPanic ==
    /\ call.op = "sample" => (IsPanic(call.ret) <=> call.curve.keyframes = <<>>)
    /\ call.op = "quantize" =>
          (IsPanic(call.ret) <=>
              (call.values = <<>> \/ \E i \in DOMAIN call.values : IsNaN(call.values[i])))
    /\ call.op = "compressed_sample" =>
          (IsPanic(call.curve) <=> call.src.keyframes = <<>>)

\* quantize was given samples of which the second is NaN, and panicked
C15_Witness ==
    /\ call.op = "quantize"
    /\ Len(call.values) >= 2
    /\ ~IsNaN(call.values[1]) /\ IsNaN(call.values[2])
    /\ IsPanic(call.ret)

----------------------------------------------------------------------------
(* C16. When the samples are not all equal, quantize stores the least sample  *)
(* as index 0, the greatest as index 65535 and every sample v as              *)
(* round((v - min) / increment), where increment = (max - min) / 65535.       *)

\* the least and greatest of the samples
Least(values) ==
    CHOOSE v \in { values[i] : i \in DOMAIN values } :
        \A i \in DOMAIN values : ~FLt(values[i], v)
Greatest(values) ==
    CHOOSE v \in { values[i] : i \in DOMAIN values } :
        \A i \in DOMAIN values : ~FLt(v, values[i])

C16_QuantizeRounds ==
    (/\ call.op = "quantize"
     /\ ~IsPanic(call.ret)
     /\ \E i, j \in DOMAIN call.values : call.values[i] # call.values[j]) =>
        LET lo == Least(call.values)
            hi == Greatest(call.values)
            increment == FDiv(FSub(hi, lo), F(65535))
        IN  /\ call.ret.kind = "Quantized"
            /\ call.ret.min_value = lo
            /\ call.ret.increment = increment
            /\ \A i \in DOMAIN call.values :
                  /\ call.values[i] = lo => call.ret.frames[i] = 0
                  /\ call.values[i] = hi => call.ret.frames[i] = 65535
                  /\ F(call.ret.frames[i]) =
                        FRound(FDiv(FSub(call.values[i], lo), increment))

\* the same with the quotient truncated, as the cast to u16 does
C16_QuantizeTruncates ==
    (/\ call.op = "quantize"
     /\ ~IsPanic(call.ret)
     /\ \E i, j \in DOMAIN call.values : call.values[i] # call.values[j]) =>
        LET lo == Least(call.values)
            hi == Greatest(call.values)
            increment == FDiv(FSub(hi, lo), F(65535))
        IN  /\ call.ret.kind = "Quantized"
            /\ call.ret.min_value = lo
            /\ call.ret.increment = increment
            /\ \A i \in DOMAIN call.values :
                  /\ call.values[i] = lo => call.ret.frames[i] = 0
                  /\ call.values[i] = hi => call.ret.frames[i] = 65535
                  /\ F(call.ret.frames[i]) =
                        FTrunc(FDiv(FSub(call.values[i], lo), increment))

----------------------------------------------------------------------------
(* C17. A compressed curve selects, for every time, frame rate and frame      *)
(* offset, the keyframe indices and the interpolation fraction that           *)
(* CurveFixed::sample selects on the curve it was quantized from, and         *)
(* interpolates linearly between the dequantized values min + index *         *)
(* increment.                                                                 *)

\* the frame the compressed curve of a call reads
CompressedFrame(c) ==
    StorageFrame(c.curve.values, c.curve.frame_rate, c.time, c.curve.time_offset)

C17_SameInterpolationRule ==
    (/\ call.op = "compressed_sample"
     /\ ~IsPanic(call.curve)
     /\ call.curve.values.kind = "Quantized") =>
        LET f == CompressedFrame(call)
            st == call.curve.values
            last_idx == Len(st.frames) - 1
            at(i) == FAdd(st.min_value, FMul(F(st.frames[i + 1]), st.increment))
        IN  /\ f = FixedFrame(call.src, call.time, Exact)
            /\ call.ret = IF f.frame_idx >= last_idx THEN at(last_idx)
                          ELSE FAdd(at(f.frame_idx),
                                    FMul(f.time, FSub(at(f.frame_idx + 1), at(f.frame_idx))))

\* the same for the curves without frame offset
C17_WithoutOffset ==
    (/\ call.op = "compressed_sample"
     /\ ~IsPanic(call.curve)
     /\ call.curve.values.kind = "Quantized"
     /\ call.src.negative_frame_offset = Zero) =>
        CompressedFrame(call) = FixedFrame(call.src, call.time, Exact)

----------------------------------------------------------------------------
(* C18. A compressed 2-, 3- or 4-component vector curve has one channel per   *)
(* component, quantized from the same component of the source keyframes, and  *)
(* a sample of it has in each component the sample of that component's        *)
(* sequence quantized alone.                                                  *)

\* what C18 says of the vector curve of a call
ChannelsPerComponent(c) ==
    /\ Len(c.curve.channels) = c.n
    /\ \A i \in 1 .. c.n :
          /\ \A k \in DOMAIN c.src.keyframes : i <= Len(c.src.keyframes[k])
          /\ c.curve.channels[i] = Storage_quantize(Component(c.src.keyframes, i))
          /\ c.ret[i] = Storage_sample(Storage_quantize(Component(c.src.keyframes, i)),
                                       c.src.frame_rate, c.time,
                                       CurveFixed_time_offset(c.src))

C18_ChannelPerComponent ==
    call.op = "compressed_vec_sample" => ChannelsPerComponent(call)

\* the same for the 2- and 3-component curves
C18_TwoAndThreeComponents ==
    (call.op = "compressed_vec_sample" /\ call.n \in {2, 3}) => ChannelsPerComponent(call)

----------------------------------------------------------------------------
(* src/src/curve/mod.rs : resample_preserving_loop *)

\* resample_preserving_loop(curve, frame_rate) of a CurveFixed<f32>.
\* frame_count - 1 is a usize subtraction: at frame_count = 0 it panics in a
\* build with overflow checks and wraps to the largest usize in one without.
resample_preserving_loop(curve, frame_rate, overflow_checks) ==
    LET offset == CurveFixed_time_offset(curve)
        duration == CurveFixed_duration(curve)
        frame_count == AsUnsigned(FRound(FMul(duration, frame_rate)), USIZE_MAX)
        frame_offset == AsInt(FRound(FMul(offset, frame_rate)))
    IN  IF frame_count = 0 /\ overflow_checks THEN Panic
        ELSE LET last_frame == IF frame_count = 0 THEN USIZE_MAX ELSE frame_count - 1
                 normalize == FDiv(One, F(last_frame))
                 keyframes == [f \in 1 .. frame_count |->
                                  CurveFixed_sample(curve,
                                      FAdd(FMul(duration, FMul(F(f - 1), normalize)),
                                           offset))]
             IN  IF \E f \in 1 .. frame_count : IsPanic(keyframes[f]) THEN Panic
                 ELSE from_keyframes_with_offset(frame_rate, frame_offset, keyframes)

----------------------------------------------------------------------------
(* Calls of resample_preserving_loop. *)

\* frame offsets of the source curves
ResampleOffsets == {-1, 0, 2}

ResampleArgs ==
    { [op |-> "resample_args",
       curve |-> from_keyframes_with_offset(r, o, k),
       frame_rate |-> q] :
        r \in FrameRates, o \in ResampleOffsets, k \in Keyframes, q \in FrameRates }

\* resample_preserving_loop(&curve, frame_rate) called
Resample(overflow_checks) ==
    /\ call.op = "resample_args"
    /\ call' = [op |-> "resample", curve |-> call.curve, frame_rate |-> call.frame_rate,
                overflow_checks |-> overflow_checks,
                ret |-> resample_preserving_loop(call.curve, call.frame_rate,
                                                 overflow_checks)]
    /\ GraphUnchanged

NextResample == \E overflow_checks \in BOOLEAN : Resample(overflow_checks)

SpecResample == InitCall(ResampleArgs) /\ [][NextResample]_vars

----------------------------------------------------------------------------
(* C19. resample_preserving_loop(curve, frame_rate) returns a CurveFixed of   *)
(* round(duration * frame_rate) keyframes whose first keyframe is the first   *)
(* keyframe of the source and whose last keyframe is the last keyframe of     *)
(* the source, for every source curve and frame rate.                         *)

\* round(duration * frame_rate) of a call
FrameCount(c) ==
    AsUnsigned(FRound(FMul(CurveFixed_duration(c.curve), c.frame_rate)), USIZE_MAX)

\* the result has frame_count keyframes, the first and the last those of the source
LoopPreserved(c) ==
    /\ ~IsPanic(c.ret)
    /\ Len(c.ret.keyframes) = FrameCount(c)
    /\ c.ret.keyframes # <<>>
    /\ c.ret.keyframes[1] = c.curve.keyframes[1]
    /\ c.ret.keyframes[Len(c.ret.keyframes)] = c.curve.keyframes[Len(c.curve.keyframes)]

C19_ResamplePreservesLoop ==
    (call.op = "resample" /\ call.curve.keyframes # <<>>) => LoopPreserved(call)

\* what does hold: a result has frame_count keyframes at the requested rate,
\* and the loop is preserved when the source has no negative frame offset
\* and the result has two keyframes or more
\* a source with a negative frame offset resampled to two keyframes or more
\* without a panic
C19_NegativeOffsetCase ==
    /\ call.op = "resample"
    /\ ~IsPanic(call.ret)
    /\ FrameCount(call) >= 2
    /\ FLt(Zero, call.curve.negative_frame_offset)

C19_FrameCountAndForwardLoop ==
    (call.op = "resample" /\ ~IsPanic(call.ret)) =>
        /\ Len(call.ret.keyframes) = FrameCount(call)
        /\ call.ret.frame_rate = call.frame_rate
        /\ (/\ FrameCount(call) >= 2
            /\ ~FLt(Zero, call.curve.negative_frame_offset))
              => LoopPreserved(call)

----------------------------------------------------------------------------
(* Calls of Animatable::blend. *)

MaxInputs == 3

\* the weights and values of the inputs
InputWeights == {Zero, Rat(1, 2), One}
InputValues == {One, F(2)}
InputVectors == {<<One, F(2), Zero>>, <<F(2), Zero, F(-1)>>}

\* the input sequences of element type f32 and of element type Vec3
InputsOf(values) ==
    UNION { [1 .. n -> [weight : InputWeights, value : values, additive : BOOLEAN]] :
              n \in 0 .. MaxInputs }

BlendArgs ==
    [op : {"blend_args"}, ty : {"f32"}, inputs : InputsOf(InputValues)]
        \cup [op : {"blend_args"}, ty : {"Vec3"}, inputs : InputsOf(InputVectors)]

\* <f32 as Animatable>::blend(inputs) called
Blend ==
    /\ call.op = "blend_args"
    /\ call.ty = "f32"
    /\ call' = [op |-> "blend", ty |-> call.ty, inputs |-> call.inputs,
                ret |-> <<blend(call.inputs)>>]
    /\ GraphUnchanged

\* <Vec3 as Animatable>::blend(inputs) called
BlendVec3 ==
    /\ call.op = "blend_args"
    /\ call.ty = "Vec3"
    /\ call' = [op |-> "blend", ty |-> call.ty, inputs |-> call.inputs,
                ret |-> Vec3_blend(call.inputs)]
    /\ GraphUnchanged

NextAnimatable == Blend \/ BlendVec3

SpecAnimatable == InitCall(BlendArgs) /\ [][NextAnimatable]_vars

----------------------------------------------------------------------------
(* C20. blend is a left fold over the inputs in order from the zero value:    *)
(* a non-additive input (w, v) replaces the accumulator acc by                *)
(* acc * (1 - w) + v * w, an additive one by acc + w * v; the blend of no     *)
(* inputs is zero, and blend([(0.5, A), (0.5, B)]) is                         *)
(* interpolate(interpolate(0, A, 0.5), B, 0.5) = A / 4 + B / 2.               *)

\* the components of a value of the called type
ComponentsOf(ty, value) == IF ty = "f32" THEN <<value>> ELSE value

\* the blend of the inputs of a call, as components
BlendOf(ty, inputs) == IF ty = "f32" THEN <<blend(inputs)>> ELSE Vec3_blend(inputs)

\* the accumulator acc after one more input, per component
FoldStep(ty, acc, input) ==
    LET v == ComponentsOf(ty, input.value)
        w == input.weight
    IN  [i \in DOMAIN acc |->
            IF input.additive
            THEN FAdd(acc[i], FMul(w, v[i]))
            ELSE FAdd(FMul(acc[i], FSub(One, w)), FMul(v[i], w))]

\* two non-additive inputs of weight 0.5
TwoHalves(inputs) ==
    /\ Len(inputs) = 2
    /\ \A i \in 1 .. 2 : ~inputs[i].additive /\ inputs[i].weight = Rat(1, 2)

\* (A + B) / 2 of two inputs, per component
Average(ty, inputs) ==
    LET A == ComponentsOf(ty, inputs[1].value)
        B == ComponentsOf(ty, inputs[2].value)
    IN  [i \in DOMAIN A |-> FDiv(FAdd(A[i], B[i]), F(2))]

C20_BlendIsLeftFold ==
    call.op = "blend" =>
        LET n == Len(call.inputs)
        IN  /\ n = 0 => \A i \in DOMAIN call.ret : call.ret[i] = Zero
            /\ n > 0 => call.ret = FoldStep(call.ty,
                                            BlendOf(call.ty, SubSeq(call.inputs, 1, n - 1)),
                                            call.inputs[n])
            /\ TwoHalves(call.inputs) =>
                 LET A == ComponentsOf(call.ty, call.inputs[1].value)
                     B == ComponentsOf(call.ty, call.inputs[2].value)
                 IN  call.ret = [i \in DOMAIN A |->
                                    FAdd(FDiv(A[i], F(4)), FDiv(B[i], F(2)))]

\* a blend of two inputs of weight 0.5 that is not their average
C20_Witness ==
    /\ call.op = "blend"
    /\ TwoHalves(call.inputs)
    /\ call.ret # Average(call.ty, call.inputs)

----------------------------------------------------------------------------
(* src/src/animatable.rs : Quat and Transform.  A quaternion is <<x, y, z, w>>. *)

\* the largest k with k * k <= m, searched from k
RECURSIVE ISqrtFrom(_, _)
ISqrtFrom(m, k) == IF (k + 1) * (k + 1) > m THEN k ELSE ISqrtFrom(m, k + 1)

\* util::approx_rsqrt : an approximation of 1 / sqrt(x), exact when x is the
\* square of a rational; 1 / sqrt(n / d) = sqrt(n * d) / n
approx_rsqrt(x) ==
    IF IsNaN(x) \/ x.n < 0 THEN NaN
    ELSE IF IsInf(x) THEN Zero
    ELSE IF x.n = 0 THEN Rat(1, 0)
    ELSE Rat(ISqrtFrom(x.n * x.d, 0), x.n)

\* Quat::IDENTITY
Quat_IDENTITY == <<Zero, Zero, Zero, One>>

\* Vec4::dot, Quat::dot
Dot4(a, b) ==
    FAdd(FAdd(FMul(a[1], b[1]), FMul(a[2], b[2])),
         FAdd(FMul(a[3], b[3]), FMul(a[4], b[4])))

\* Quat * f32 and Vec4 * f32 : every component scaled
Scale4(a, k) == [i \in DOMAIN a |-> FMul(a[i], k)]

\* Quat * Quat : the Hamilton product
QuatMul(a, b) ==
    << FAdd(FAdd(FMul(a[4], b[1]), FMul(a[1], b[4])),
            FSub(FMul(a[2], b[3]), FMul(a[3], b[2]))),
       FAdd(FSub(FMul(a[4], b[2]), FMul(a[1], b[3])),
            FAdd(FMul(a[2], b[4]), FMul(a[3], b[1]))),
       FAdd(FAdd(FMul(a[4], b[3]), FMul(a[1], b[2])),
            FSub(FMul(a[3], b[4]), FMul(a[2], b[1]))),
       FSub(FSub(FMul(a[4], b[4]), FMul(a[1], b[1])),
            FAdd(FMul(a[2], b[2]), FMul(a[3], b[3]))) >>

\* the quaternion rot scaled to unit length
Normalized(rot) == Scale4(rot, approx_rsqrt(Dot4(rot, rot)))

\* <Quat as Animatable>::interpolate : nlerp along the short path (Vec4::interpolate
\* is the affine combination per component, as Vec3A::interpolate)
Quat_interpolate(a, b, t) ==
    Normalized(Vec3A_interpolate(a, IF FLt(Dot4(a, b), Zero) THEN Scale4(b, F(-1)) ELSE b, t))

\* <Quat as Animatable>::blend : the fold from Quat::IDENTITY; additive is not read
RECURSIVE Quat_blend_from(_, _)
Quat_blend_from(value, inputs) ==
    IF inputs = <<>> THEN value
    ELSE Quat_blend_from(Quat_interpolate(value, Head(inputs).value, Head(inputs).weight),
                         Tail(inputs))

Quat_blend(inputs) == Quat_blend_from(Quat_IDENTITY, inputs)

\* Transform
Transform(translation, rotation, scale) ==
    [translation |-> translation, rotation |-> rotation, scale |-> scale]

\* <Transform as Animatable>::blend : one step of the loop
Transform_blend_step(acc, input) ==
    IF input.additive
    THEN Transform([i \in DOMAIN acc.translation |->
                       FAdd(acc.translation[i], FMul(input.weight, input.value.translation[i]))],
                   QuatMul(Scale4(input.value.rotation, input.weight), acc.rotation),
                   [i \in DOMAIN acc.scale |->
                       FAdd(acc.scale[i], FMul(input.weight, input.value.scale[i]))])
    ELSE Transform(Vec3A_interpolate(acc.translation, input.value.translation, input.weight),
                   Quat_interpolate(acc.rotation, input.value.rotation, input.weight),
                   Vec3A_interpolate(acc.scale, input.value.scale, input.weight))

RECURSIVE Transform_blend_from(_, _)
Transform_blend_from(acc, inputs) ==
    IF inputs = <<>> THEN acc
    ELSE Transform_blend_from(Transform_blend_step(acc, Head(inputs)), Tail(inputs))

\* <Transform as Animatable>::blend
Transform_blend(inputs) ==
    Transform_blend_from(Transform(Vec3A_ZERO, Quat_IDENTITY, Vec3A_ZERO), inputs)

----------------------------------------------------------------------------
(* Calls of <Transform as Animatable>::blend. *)

MaxTransforms == 2

\* unit rotations: the identity, its negation, half a turn about x, and a
\* rotation about x whose nlerp with the identity at 1/2 has a rational length
InputRotations ==
    { Quat_IDENTITY, <<Zero, Zero, Zero, F(-1)>>, <<One, Zero, Zero, Zero>>,
      <<Rat(24, 25), Zero, Zero, Rat(7, 25)>> }

InputTransforms ==
    { Transform(t, r, <<One, One, F(2)>>) : t \in InputVectors, r \in InputRotations }

TransformArgs ==
    [op : {"transform_args"},
     inputs : UNION { [1 .. n -> [weight : InputWeights, value : InputTransforms,
                                  additive : BOOLEAN]] : n \in 0 .. MaxTransforms }]

\* <Transform as Animatable>::blend(inputs) called
BlendTransform ==
    /\ call.op = "transform_args"
    /\ call' = [op |-> "transform_blend", inputs |-> call.inputs,
                ret |-> Transform_blend(call.inputs)]
    /\ GraphUnchanged

NextTransform == BlendTransform

SpecTransform == InitCall(TransformArgs) /\ [][NextTransform]_vars

----------------------------------------------------------------------------
(* C21. Transform::blend blends its fields independently: for every input     *)
(* sequence, additive or not, the result's translation and scale are          *)
(* Vec3::blend of the inputs' translations and scales, and its rotation is    *)
(* Quat::blend of the inputs' rotations with the same weights and flags.      *)

\* the inputs of one field of the transforms
FieldInputs(inputs, field) ==
    [i \in DOMAIN inputs |->
        BlendInput(inputs[i].weight, inputs[i].value[field], inputs[i].additive)]

VectorFieldsBlended(c) ==
    /\ c.ret.translation = Vec3_blend(FieldInputs(c.inputs, "translation"))
    /\ c.ret.scale = Vec3_blend(FieldInputs(c.inputs, "scale"))

RotationBlended(c) == c.ret.rotation = Quat_blend(FieldInputs(c.inputs, "rotation"))

C21_FieldsBlendIndependently ==
    call.op = "transform_blend" => VectorFieldsBlended(call) /\ RotationBlended(call)

\* what does hold: the vector fields always, the rotation when no input is additive
C21_WithoutAdditiveRotation ==
    call.op = "transform_blend" =>
        /\ VectorFieldsBlended(call)
        /\ (\A i \in DOMAIN call.inputs : ~call.inputs[i].additive) => RotationBlended(call)

----------------------------------------------------------------------------
(* src/src/clip.rs : AnimationClipBuilder and AnimationClip::get_curve.       *)
(* A curves map is a function from property paths to curves.                  *)

\* AnimationClipBuilder::add_dynamic_curve keeping the curve a key already has
add_dynamic_curve_keep_first(curves, key, curve) ==
    [k \in DOMAIN curves \cup {key} |-> IF k \in DOMAIN curves THEN curves[k] ELSE curve]

\* AnimationClipBuilder::add_dynamic_curve (add_curve wraps it) : HashMap::insert
add_dynamic_curve(curves, key, curve) ==
    [k \in DOMAIN curves \cup {key} |-> IF k = key THEN curve ELSE curves[k]]

\* AnimationClip::get_curve::<T>
get_curve(curves, T, key) ==
    IF key \notin DOMAIN curves THEN [ret |-> "MissingKey"]
    ELSE IF value_type_id(curves[key]) # T THEN [ret |-> "WrongType"]
    ELSE [ret |-> "Ok", curve |-> curves[key]]

----------------------------------------------------------------------------
(* Building a clip and fetching its curves. *)

MaxAdds == 3

\* the keys of the curves added and fetched
ClipKeys == { p \in Properties : p.access = "translation" }

\* AnimationClip::builder()
NewBuilder == [op |-> "builder", curves |-> <<>>, adds |-> <<>>]

\* builder.add_curve(key, curve) called; adds records the call
BuilderAddCurve(key, curve) ==
    /\ call.op = "builder"
    /\ Len(call.adds) < MaxAdds
    /\ call' = [call EXCEPT !.curves = add_dynamic_curve(call.curves, key, curve),
                            !.adds = Append(call.adds, [key |-> key, curve |-> curve])]
    /\ GraphUnchanged

\* builder.build() called
Build ==
    /\ call.op = "builder"
    /\ call' = [call EXCEPT !.op = "clip"]
    /\ GraphUnchanged

\* clip.get_curve::<T>(key) called
GetCurve(T, key) ==
    /\ call.op = "clip"
    /\ call' = [op |-> "get_curve", curves |-> call.curves, adds |-> call.adds,
                T |-> T, key |-> key, got |-> get_curve(call.curves, T, key)]
    /\ GraphUnchanged

NextClip ==
    \/ \E key \in ClipKeys, curve \in TaggedCurves : BuilderAddCurve(key, curve)
    \/ Build
    \/ \E T \in ValueTypes, key \in ClipKeys : GetCurve(T, key)

SpecClip == InitCall({NewBuilder}) /\ [][NextClip]_vars

----------------------------------------------------------------------------
(* C22. A clip built from any sequence of add_curve calls holds for each key  *)
(* the curve of the last add for that key; get_curve<T>(key) returns          *)
(* MissingKey exactly when the key was never added, WrongType exactly when    *)
(* the key's stored curve has a value type other than T, and the stored       *)
(* curve otherwise.                                                           *)

\* the positions of the adds for a key
AddsFor(adds, key) == { i \in DOMAIN adds : adds[i].key = key }

\* the greatest element of a nonempty set of naturals
Latest(S) == CHOOSE i \in S : \A j \in S : j <= i

\* the curve of the last add for a key that was added
LastAdded(adds, key) == adds[Latest(AddsFor(adds, key))].curve

C22_LastAddWinsAndErrorsDistinct ==
    call.op \in {"builder", "clip", "get_curve"} =>
        /\ DOMAIN call.curves = { call.adds[i].key : i \in DOMAIN call.adds }
        /\ \A key \in DOMAIN call.curves : call.curves[key] = LastAdded(call.adds, key)
        /\ call.op = "get_curve" =>
             LET added == AddsFor(call.adds, call.key) # {}
             IN  /\ call.got.ret = "MissingKey" <=> ~added
                 /\ call.got.ret = "WrongType" <=>
                        (added /\ LastAdded(call.adds, call.key).ty # call.T)
                 /\ call.got.ret = "Ok" <=>
                        (added /\ LastAdded(call.adds, call.key).ty = call.T)
                 /\ call.got.ret = "Ok" =>
                        call.got.curve = LastAdded(call.adds, call.key)

\* a key added twice with curves of two types, fetched with the type of the first
C22_Witness ==
    /\ call.op = "get_curve"
    /\ call.got.ret = "WrongType"
    /\ \E i, j \in AddsFor(call.adds, call.key) :
          i < j /\ call.adds[i].curve.ty = call.T /\ call.adds[j].curve.ty # call.T

----------------------------------------------------------------------------
(* src/src/path/field.rs, src/src/path/mod.rs : parsing and printing access   *)
(* paths.  A string is a sequence of characters; an index into a string       *)
(* counts from 0 as in the code, so the character at index i is path[i + 1].  *)

Delimiters == {".", "[", "]"}
Digits == <<"0", "1", "2", "3", "4", "5", "6", "7", "8", "9">>

\* the value of a decimal digit
DigitValue(c) == (CHOOSE i \in DOMAIN Digits : Digits[i] = c) - 1

\* str::parse::<usize> : None unless the string is a nonempty run of digits
\* (a value beyond the model's strings is out of reach)
RECURSIVE DecimalValue(_, _)
DecimalValue(str, acc) ==
    IF str = <<>> THEN acc ELSE DecimalValue(Tail(str), 10 * acc + DigitValue(Head(str)))

parse_usize(str) ==
    IF str # <<>> /\ \A i \in DOMAIN str : \E d \in DOMAIN Digits : Digits[d] = str[i]
    THEN Some(DecimalValue(str, 0))
    ELSE None

\* <usize as Display>::fmt
RECURSIVE usize_to_string(_)
usize_to_string(n) ==
    IF n < 10 THEN <<Digits[n + 1]>>
    ELSE usize_to_string(n \div 10) \o <<Digits[(n % 10) + 1]>>

\* PathParser::next_token : the index after the identifier that starts at index
RECURSIVE IdentEnd(_, _)
IdentEnd(path, index) ==
    IF index >= Len(path) \/ path[index + 1] \in Delimiters THEN index
    ELSE IdentEnd(path, index + 1)

\* PathParser::next_token at self.index = index : the token and the new index
next_token(path, index) ==
    IF index >= Len(path) THEN None
    ELSE IF path[index + 1] = "." THEN Some([token |-> "Dot", index |-> index + 1])
    ELSE IF path[index + 1] = "[" THEN Some([token |-> "OpenBracket", index |-> index + 1])
    ELSE IF path[index + 1] = "]" THEN Some([token |-> "CloseBracket", index |-> index + 1])
    ELSE Some([token |-> "Ident",
               value |-> SubSeq(path, index + 1, IdentEnd(path, index)),
               index |-> IdentEnd(path, index)])

\* value.parse::<usize>().map(TupleIndex).or(Ok(Field(value)))
TupleIndexOrField(value) ==
    IF parse_usize(value).some
    THEN [access |-> "TupleIndex", index |-> parse_usize(value).v]
    ELSE [access |-> "Field", field |-> value]

\* an error of the parser
PathErr(error, index) == [ok |-> FALSE, error |-> error, at |-> index]

\* the token that follows index, when it is an identifier
IsIdentAt(path, index) ==
    next_token(path, index).some /\ next_token(path, index).v.token = "Ident"

\* PathParser::token_to_access with self.index = index after the token was
\* read : the access or the error, and the new index
token_to_access(path, index, token) ==
    IF token.token = "Dot"
    THEN IF IsIdentAt(path, index)
         THEN [ok |-> TRUE, access |-> TupleIndexOrField(next_token(path, index).v.value),
               index |-> next_token(path, index).v.index]
         ELSE PathErr("ExpectedIdent", index)
    ELSE IF token.token = "OpenBracket"
    THEN IF ~IsIdentAt(path, index) THEN PathErr("ExpectedIdent", index)
         ELSE IF ~parse_usize(next_token(path, index).v.value).some
         THEN PathErr("IndexParseError", index)
         ELSE IF ~(/\ next_token(path, next_token(path, index).v.index).some
                   /\ next_token(path, next_token(path, index).v.index).v.token
                        = "CloseBracket")
         THEN PathErr("ExpectedToken", index)
         ELSE [ok |-> TRUE,
               access |-> [access |-> "ListIndex",
                           index |-> parse_usize(next_token(path, index).v.value).v],
               index |-> next_token(path, index).v.index + 1]
    ELSE IF token.token = "CloseBracket" THEN PathErr("UnexpectedToken", index)
    ELSE [ok |-> TRUE, access |-> TupleIndexOrField(token.value), index |-> index]

\* FieldPath::parse : the loop over PathParser from self.index = index
RECURSIVE FieldPath_parse_from(_, _, _), FieldPath_parse_step(_, _, _, _)
FieldPath_parse_from(path, index, parts) ==
    IF ~next_token(path, index).some THEN [ok |-> TRUE, parts |-> parts]
    ELSE FieldPath_parse_step(path, parts, next_token(path, index).v.index,
                              token_to_access(path, next_token(path, index).v.index,
                                              next_token(path, index).v))

\* one item of the parser pushed, or its error returned
FieldPath_parse_step(path, parts, idx, item) ==
    IF ~item.ok THEN item
    ELSE FieldPath_parse_from(path, item.index, Append(parts, <<item.access, idx>>))

\* FieldPath::parse
FieldPath_parse(string) == FieldPath_parse_from(string, 0, <<>>)

\* <FieldPath as Display>::fmt from the part at position idx
RECURSIVE FieldPath_fmt_from(_, _)
FieldPath_fmt_from(parts, idx) ==
    IF idx > Len(parts) THEN <<>>
    ELSE (IF idx # 1 THEN <<".">> ELSE <<>>)
         \o (IF parts[idx][1].access = "Field" THEN parts[idx][1].field
             ELSE IF parts[idx][1].access = "TupleIndex"
             THEN usize_to_string(parts[idx][1].index)
             ELSE <<"[">> \o usize_to_string(parts[idx][1].index) \o <<"]">>)
         \o FieldPath_fmt_from(parts, idx + 1)

\* <FieldPath as Display>::fmt
FieldPath_fmt(parts) == FieldPath_fmt_from(parts, 1)

\* the component names the TypeRegistry has a registration for
Registered == { <<"T">> }

\* the position of the first "." of a string, 0 when it has none
RECURSIVE FirstDot(_, _)
FirstDot(path, i) ==
    IF i > Len(path) THEN 0 ELSE IF path[i] = "." THEN i ELSE FirstDot(path, i + 1)

\* the AccessPath of a component name and a parsed field path, or the error
AccessPath_new(component, field) ==
    IF ~field.ok THEN field
    ELSE [ok |-> TRUE, component_name |-> component, field_path |-> field.parts]

\* AccessPath::parse with the split made at the position dot
AccessPath_parse_at(path, dot) ==
    IF dot = 0 THEN PathErr("NoComponentName", 0)
    ELSE IF SubSeq(path, 1, dot - 1) \notin Registered
    THEN PathErr("InvalidComponentType", 0)
    ELSE AccessPath_new(SubSeq(path, 1, dot - 1),
                        FieldPath_parse(SubSeq(path, dot + 1, Len(path))))

\* AccessPath::parse
AccessPath_parse(path) == AccessPath_parse_at(path, FirstDot(path, 1))

\* <AccessPath as Display>::fmt
AccessPath_fmt(access) ==
    access.component_name \o <<".">> \o FieldPath_fmt(access.field_path)

----------------------------------------------------------------------------
(* Calls of AccessPath::parse and of to_string on its result. *)

MaxPathLen == 6

\* the characters of the paths parsed
PathChars == {"T", "0", "1", ".", "[", "]"}

PathArgs ==
    [op : {"path_args"}, path : UNION { [1 .. n -> PathChars] : n \in 0 .. MaxPathLen }]

\* AccessPath::parse(&registry, path) called, and to_string() on an Ok result
ParseAndPrint ==
    /\ call.op = "path_args"
    /\ call' = [op |-> "parse", path |-> call.path,
                parsed |-> AccessPath_parse(call.path),
                printed |-> IF AccessPath_parse(call.path).ok
                            THEN AccessPath_fmt(AccessPath_parse(call.path))
                            ELSE <<>>]
    /\ GraphUnchanged

NextPath == ParseAndPrint

SpecPath == InitCall(PathArgs) /\ [][NextPath]_vars

----------------------------------------------------------------------------
(* C23. Parsing an access path and printing it is the identity: for every     *)
(* string that AccessPath::parse accepts, the Display output of the parsed    *)
(* path is the string.                                                        *)

C23_ParsePrintIdentity ==
    (call.op = "parse" /\ call.parsed.ok) => call.printed = call.path

\* the accesses of a parsed path
AccessesOf(parsed) == { parsed.field_path[i][1] : i \in DOMAIN parsed.field_path }

\* what does hold: a path of field names separated by single dots is printed
\* as it was written
C23_FieldNamesRoundTrip ==
    (/\ call.op = "parse"
     /\ call.parsed.ok
     /\ \A a \in AccessesOf(call.parsed) : a.access = "Field"
     /\ Len(call.path) > FirstDot(call.path, 1) => call.path[FirstDot(call.path, 1) + 1] # ".")
        => call.printed = call.path

\* a path with a list index was parsed
C23_ListIndexParsed ==
    /\ call.op = "parse"
    /\ call.parsed.ok
    /\ \E a \in AccessesOf(call.parsed) : a.access = "ListIndex"

----------------------------------------------------------------------------
(* C25. AnimationGraph::add_clip is all-or-nothing with respect to type       *)
(* conflicts: when the registration in the track store fails with             *)
(* IncorrectType the failure is reported to the caller and the graph gains    *)
(* neither a clip state nor a leaf node, so every clip id is that of a clip   *)
(* whose registration succeeded.                                              *)

\* every clip id belongs to a clip the track store accepted
EveryClipRegistered == \A i \in DOMAIN registered : registered[i].some

C25_AddClipAllOrNothing ==
    /\ []EveryClipRegistered
    /\ [][(AddClipStep /\ last'.registered = "IncorrectType") =>
             /\ UNCHANGED <<nodes, clips>>
             /\ last'.ret = "IncorrectType"]_vars

\* what the code does: the track store is left as it was, while the clip
\* state and the leaf node are added and the node id is returned
C25_RejectedClipKeepsItsSlot ==
    [][(AddClipStep /\ last'.registered = "IncorrectType") =>
          /\ UNCHANGED <<bones, tracks, dirty>>
          /\ Len(clips') = Len(clips) + 1
          /\ Len(nodes') = Len(nodes) + 1
          /\ nodes'[Len(nodes')] = ClipNode(Len(clips))
          /\ last'.ret = "NodeId"]_vars

----------------------------------------------------------------------------
(* C26. evaluate() terminates on every graph in which the connected edges of  *)
(* nonzero weight reachable from the root form no cycle; add_input makes no   *)
(* cycle check and accepts an edge that closes a cycle (a self-edge of a      *)
(* blend node included); on a graph whose root reaches a cycle of connected   *)
(* edges of weight 1.0, evaluate() never terminates.                          *)

\* the graphs evaluate is run on: up to LoopNodes nodes and LoopEdges edges,
\* an edge being new, disconnected, or given one of the weights LoopWeights
LoopNodes == 2
LoopEdges == 2
LoopWeights == {Zero, Rat(1, 2), One}

NextLoop ==
    \/ NodeRoom(LoopNodes) /\ AddBlend(TRUE)
    \/ NodeRoom(LoopNodes) /\ AddClip(EmptyClip, <<>>)
    \/ \E target, input \in NodeIds :
          EdgeRoom(target, input, LoopEdges) /\ AddInput(target, input)
    \/ \E target, input \in NodeIds : Disconnect(target, input)
    \/ \E target, input \in NodeIds : \E w \in LoopWeights : SetWeight(target, input, w)
    \/ EvaluateBegin
    \/ EvaluateStep

SpecLoop == Init /\ [][NextLoop]_vars

\* node n lies on a cycle of edges of the kind
OnCycle(ns, n, kind) == n \in Reachable(ns, Successors(ns, n, kind), kind)

\* the root reaches, by connected edges of nonzero weight, a cycle of the kind
RootReachesCycle(kind) ==
    \E n \in Reachable(nodes, {ROOT}, "active") : OnCycle(nodes, n, kind)

\* add_input accepts every new edge into a blend node from a node that leads
\* back to it, and the edge closes a cycle: one of connected edges of weight
\* 1.0 when the way back is one
AcceptsCycles ==
    \A target, input \in NodeIds : \A kind \in {"any", "unit"} :
        (/\ IsBlend(nodes[target + 1])
         /\ get_input_mut(nodes[target + 1], input) = 0
         /\ target \in Reachable(nodes, {input}, kind))
        => /\ add_input(nodes, target, input).ret = "Ok"
           /\ OnCycle(add_input(nodes, target, input).nodes, target, kind)

\* the iterations of evaluate's loop that a stack entry for node n stands
\* for: its own and those of the entries it pushes; fuel bounds the depth
RECURSIVE Iterations(_, _, _), InputIterations(_, _, _, _)
Iterations(ns, n, fuel) ==
    IF fuel = 0 \/ ~IsNode(ns, n) \/ ~IsBlend(ns[n + 1]) THEN 1
    ELSE 1 + InputIterations(ns, n, Len(ns[n + 1].inputs), fuel - 1)

InputIterations(ns, n, i, fuel) ==
    IF i = 0 THEN 0
    ELSE InputIterations(ns, n, i - 1, fuel)
         + (IF ns[n + 1].inputs[i].node_id \in Successors(ns, n, "active")
            THEN Iterations(ns, ns[n + 1].inputs[i].node_id, fuel)
            ELSE 0)

\* the iterations left to evaluate's loop with the first i entries of its stack
RECURSIVE Remaining(_)
Remaining(i) ==
    IF i = 0 THEN 0
    ELSE Remaining(i - 1) + Iterations(nodes, stack[i].node_id, Len(nodes))

C26_EvaluateTermination ==
    /\ []AcceptsCycles
    /\ [][(pc = "evaluate" /\ RootReachesCycle("unit")) => pc' = "evaluate"]_vars
    /\ [][(pc = "evaluate" /\ ~RootReachesCycle("active")) =>
             /\ Remaining(Len(stack))' = Remaining(Len(stack)) - 1
             /\ (pc' = "idle") = (Remaining(Len(stack))' = 0)]_vars

\* evaluate is running on a cycle of two blend nodes and has popped the root
C26_Witness ==
    /\ pc = "evaluate"
    /\ RootReachesCycle("unit")
    /\ stack # <<>>
    /\ stack[Len(stack)].node_id # ROOT

\* evaluate is about to return on a graph without a cycle in which the root
\* has an input
C26_AcyclicReturn ==
    /\ pc = "evaluate"
    /\ ~RootReachesCycle("active")
    /\ Successors(nodes, ROOT, "active") # {}
    /\ stack[Len(stack)].node_id # ROOT
    /\ Remaining(Len(stack)) = 1

----------------------------------------------------------------------------
(* C29. After every evaluate() on a graph whose edge weights are finite each  *)
(* clip's weight is a finite number, also when no clip is reachable from the  *)
(* root: then every clip weight is exactly 0 and sample_and_blend feeds no    *)
(* clip to blend.                                                             *)

\* the clips the weight filter of sample_and_blend lets through
FedToBlend(cs) == { c \in 0 .. (Len(cs) - 1) : FNeZero(cs[c + 1].weight) }

\* the clips with a leaf the root reaches by connected edges of nonzero weight
ReachedClips ==
    { c \in ClipIds : Leaves(nodes, c) \cap Reachable(nodes, {ROOT}, "active") # {} }

\* every edge weight of the graph is finite
FiniteEdges ==
    \A n \in NodeIds : IsBlend(nodes[n + 1]) =>
        \A i \in 1 .. Len(nodes[n + 1].inputs) : IsFinite(nodes[n + 1].inputs[i].weight)

C29_WeightsFinite ==
    [][(EvaluateReturns /\ FiniteEdges) =>
          /\ \A c \in ClipIds : IsFinite(clips'[c + 1].weight)
          /\ ReachedClips = {} =>
                /\ \A c \in ClipIds : clips'[c + 1].weight = Zero
                /\ FedToBlend(clips') = {}]_vars

\* what the code does: the weights are finite when a clip is reached, and
\* every clip weight is NaN, and passes the filter, when none is
C29_NaNWhenNoneReached ==
    [][(EvaluateReturns /\ FiniteEdges) =>
          IF ReachedClips # {}
          THEN \A c \in ClipIds : IsFinite(clips'[c + 1].weight)
          ELSE /\ \A c \in ClipIds : IsNaN(clips'[c + 1].weight)
               /\ FedToBlend(clips') = ClipIds]_vars

----------------------------------------------------------------------------
(* C30. Quantizing a CurveFixed into a compressed curve preserves the curve's *)
(* timing metadata: the compressed curve reports the keyframe_count(), the    *)
(* time_offset() and the duration() of its source.                            *)

\* <CompressedFloat32Curve as Curve<f32>>::duration
CompressedFloat32Curve_duration(curve) ==
    FMul(F(Storage_len(curve.values)), curve.frame_rate)

\* <CompressedFloat32Curve as Curve<f32>>::time_offset
CompressedFloat32Curve_time_offset(curve) == curve.time_offset

\* <CompressedFloat32Curve as Curve<f32>>::keyframe_count
CompressedFloat32Curve_keyframe_count(curve) == Storage_len(curve.values)

\* a curve was quantized
Quantized == call.op = "compressed_sample" /\ ~IsPanic(call.curve)

C30_QuantizePreservesTiming ==
    Quantized =>
        /\ CompressedFloat32Curve_keyframe_count(call.curve) = keyframe_count(call.src)
        /\ CompressedFloat32Curve_time_offset(call.curve) = CurveFixed_time_offset(call.src)
        /\ CompressedFloat32Curve_duration(call.curve) = CurveFixed_duration(call.src)

\* what the code does: the count and the offset are those of the source, the
\* duration is the number of keyframes times the frame rate
C30_CountAndOffsetPreserved ==
    Quantized =>
        /\ CompressedFloat32Curve_keyframe_count(call.curve) = keyframe_count(call.src)
        /\ CompressedFloat32Curve_time_offset(call.curve) = CurveFixed_time_offset(call.src)
        /\ CompressedFloat32Curve_duration(call.curve)
               = FMul(F(keyframe_count(call.src)), call.src.frame_rate)

\* a curve of more than one keyframe was quantized
C30_SeveralKeyframes == Quantized /\ keyframe_count(call.src) > 1

----------------------------------------------------------------------------
(* src/src/lib.rs, src/src/graph/hierarchy.rs, src/src/graph/application.rs : *)
(* the systems of AnimationPlugin run on a World with one AnimationGraph, a   *)
(* component of entity 0. world.names and world.children are the Name and     *)
(* Children components of the entities (entity e at position e + 1),          *)
(* world.component tells which entities have the component the clips         *)
(* animate, world.bindings are the BoneBinding components, world.commands     *)
(* the commands queued and not yet applied, world.sys what each system has    *)
(* done in the current run of PostUpdate, world.changed whether the graph     *)
(* changed since the system's last run. The values written to the animated    *)
(* fields are left out: world.written records which fields the last           *)
(* animate_entities_system wrote, world.animated what animate_entity          *)
(* returned for each entity.                                                  *)

MaxEntities == 3
WorldClips == 2

GRAPH == 0
Systems == {"evaluate", "bind", "animate"}
Names == {"hips", "arm"}

\* EntityPath::iter : the names of the entity paths of the clips; the path
\* without names is that of the entity of the graph
EntityPath_iter(path) ==
    IF path = "" THEN <<>> ELSE IF path = "arm" THEN <<"hips", "arm">> ELSE <<path>>

\* the type of the fields of the animated component
FieldTypes == [translation |-> "Vec3", scale |-> "Vec3"]

\* the clips added to the graph of the World: one curve each, for an entity
\* with the animated component (those spawned) or without it (entity 0)
WorldProperties ==
    { [entity |-> "hips", access |-> "translation"],
      [entity |-> "arm", access |-> "translation"],
      [entity |-> "", access |-> "translation"] }
WorldClipSet == { [p \in {property} |-> [ty |-> "Vec3", tag |-> "k"]] : property \in WorldProperties }

Entities == 0 .. (Len(world.names) - 1)

\* AnimationGraph::evaluate from the stack st on
RECURSIVE evaluate_loop(_, _, _)
evaluate_loop(ns, cs, st) ==
    IF st = <<>> THEN normalize_weights(cs)
    ELSE IF ~IsNode(ns, st[Len(st)].node_id)
    THEN evaluate_loop(ns, cs, SubSeq(st, 1, Len(st) - 1))
    ELSE IF IsBlend(GraphNodes_get(ns, st[Len(st)].node_id))
    THEN evaluate_loop(ns, cs,
             SubSeq(st, 1, Len(st) - 1)
             \o Pushes(GraphNodes_get(ns, st[Len(st)].node_id), st[Len(st)].cumulative_weight))
    ELSE evaluate_loop(ns,
             add_weight(cs, GraphNodes_get(ns, st[Len(st)].node_id).clip,
                        st[Len(st)].cumulative_weight),
             SubSeq(st, 1, Len(st) - 1))

\* AnimationGraph::evaluate
evaluate(ns, cs) ==
    evaluate_loop(ns, clear_weights(cs), <<[node_id |-> ROOT, cumulative_weight |-> One]>>)

\* the constraints of AnimationPlugin::build with only the hierarchy binding
\* before animate_entities_system
After_bind_only == [evaluate |-> {}, bind |-> {}, animate |-> {"bind"}]

\* AnimationPlugin::build : the systems each system is ordered after
After == [evaluate |-> {}, bind |-> {}, animate |-> {"bind", "evaluate"}]

\* the schedule may run system s: it has not run in this run of PostUpdate and
\* the systems it is ordered after have
Ready(s) ==
    /\ world.has_graph \in BOOLEAN
    /\ "sys" \in DOMAIN world
    /\ world.sys[s] = "waiting"
    /\ \A d \in After[s] : world.sys[d] = "done"

\* no system has run in this run of PostUpdate
BetweenTicks == "sys" \in DOMAIN world /\ \A s \in Systems : world.sys[s] = "waiting"

\* the graph was mutated by system s (or, s = "user", from outside the
\* schedule): it is changed for every other system
Mutated(changed, s) == [t \in Systems |-> IF t = s THEN changed[t] ELSE TRUE]

\* system s has run: the changes up to now are no longer new to it
Seen(changed, s) == [changed EXCEPT ![s] = FALSE]

\* a World with the graph on entity 0 and nothing else
NewWorld ==
    [has_graph |-> TRUE,
     names |-> <<"root">>,
     children |-> << <<>> >>,
     component |-> <<FALSE>>,
     bindings |-> <<None>>,
     commands |-> <<>>,
     sys |-> [s \in Systems |-> "waiting"],
     changed |-> [s \in Systems |-> TRUE],
     written |-> {},
     animated |-> <<>>]

InitWorld ==
    /\ nodes = <<>>
    /\ clips = <<>>
    /\ bones = <<>>
    /\ tracks = <<>>
    /\ dirty = FALSE
    /\ pc = "idle"
    /\ stack = <<>>
    /\ pending = <<>>
    /\ time_arg = 0
    /\ visited = {}
    /\ revisit = FALSE
    /\ pre = <<>>
    /\ last = [ret |-> "unit"]
    /\ registered = <<>>
    /\ call = NoCall
    /\ world = NewWorld

\* the position among the children of current of any child, whatever its name
FirstChild(w, current, name) == IF w.children[current + 1] = <<>> THEN 0 ELSE 1

\* find_bone, the inner loop: the position among the children of current of
\* the first child named name, 0 when there is none
FirstNamed(w, current, name) ==
    IF \E k \in DOMAIN w.children[current + 1] : w.names[w.children[current + 1][k] + 1] = name
    THEN CHOOSE k \in DOMAIN w.children[current + 1] :
            /\ w.names[w.children[current + 1][k] + 1] = name
            /\ \A j \in 1 .. (k - 1) : w.names[w.children[current + 1][j] + 1] # name
    ELSE 0

\* find_bone from fragment i of the path on
RECURSIVE find_bone_from(_, _, _, _)
find_bone_from(w, current, parts, i) ==
    IF i > Len(parts) THEN Some(current)
    ELSE IF FirstNamed(w, current, parts[i]) = 0 THEN None
    ELSE find_bone_from(w, w.children[current + 1][FirstNamed(w, current, parts[i])],
                        parts, i + 1)

\* hierarchy::find_bone
hierarchy_find_bone(w, root, path) == find_bone_from(w, root, EntityPath_iter(path), 1)

\* bind_hierarchy_system, the loop over the bones: the bones bound
BoundBones(w, ts) ==
    [b \in DOMAIN ts |-> [ts[b] EXCEPT !.entity = hierarchy_find_bone(w, GRAPH, ts[b].path)]]

\* bind_hierarchy_system, the loop over the bones: the commands queued for
\* the first b bones
RECURSIVE BindCommands(_, _, _)
BindCommands(w, ts, b) ==
    IF b = 0 THEN <<>>
    ELSE IF hierarchy_find_bone(w, GRAPH, ts[b].path).some
    THEN Append(BindCommands(w, ts, b - 1),
                [op |-> "insert", entity |-> hierarchy_find_bone(w, GRAPH, ts[b].path).v,
                 binding |-> [graph |-> GRAPH, bone_id |-> ts[b].id]])
    ELSE BindCommands(w, ts, b - 1)

\* animate_entity, the loop over the tracks of the bone: the accesses written
WrittenFields(w, entity, bone) ==
    { a \in DOMAIN bone.tracks : w.component[entity + 1] /\ FieldTypes[a] = bone.tracks[a].ty }

\* animate_entity : "Ok" or the error
animate_entity(w, ts, entity, binding) ==
    IF ~w.has_graph \/ binding.graph # GRAPH THEN "InvalidAnimationGraph"
    ELSE IF binding.bone_id + 1 \notin DOMAIN ts THEN "InvalidBoundBone"
    ELSE IF ts[binding.bone_id + 1].entity # Some(entity) THEN "BoneNoLongerBound"
    ELSE IF ~w.changed["animate"] THEN "Ok"
    ELSE IF WrittenFields(w, entity, ts[binding.bone_id + 1]) # {} THEN "Ok"
    ELSE "NoValidProperties"

\* the entities with a BoneBinding
Bound(w) == { e \in 0 .. (Len(w.bindings) - 1) : w.bindings[e + 1].some }

\* animate_entities_system: the entities put into dead
Dead(w, ts) == { e \in Bound(w) : animate_entity(w, ts, e, w.bindings[e + 1].v) = "Ok" }

\* remove::<BoneBinding> queued for the entities of es below n
RECURSIVE RemoveCommands(_, _)
RemoveCommands(es, n) ==
    IF n = 0 THEN <<>>
    ELSE IF (n - 1) \in es
    THEN Append(RemoveCommands(es, n - 1), [op |-> "remove", entity |-> n - 1])
    ELSE RemoveCommands(es, n - 1)

\* Commands applied to the BoneBinding components
RECURSIVE Applied(_, _)
Applied(bindings, commands) ==
    IF commands = <<>> THEN bindings
    ELSE Applied([bindings EXCEPT ![Head(commands).entity + 1] =
                     IF Head(commands).op = "insert" THEN Some(Head(commands).binding)
                     ELSE None],
                 Tail(commands))

\* commands.spawn of a named child of parent with the animated component
Spawn(parent, name) ==
    /\ BetweenTicks
    /\ Len(world.names) < MaxEntities
    /\ world' = [world EXCEPT
                    !.names = Append(@, name),
                    !.children = Append([@ EXCEPT ![parent + 1] = Append(@, Len(world.names))],
                                        <<>>),
                    !.component = Append(@, TRUE),
                    !.bindings = Append(@, None)]
    /\ UNCHANGED <<nodes, clips, bones, tracks, dirty, pc, stack, pending, time_arg,
                   visited, revisit, pre, last, registered, call>>

\* the Name of an entity replaced
Rename(entity, name) ==
    /\ BetweenTicks
    /\ entity # GRAPH
    /\ world.names[entity + 1] # name
    /\ world' = [world EXCEPT !.names[entity + 1] = name]
    /\ UNCHANGED <<nodes, clips, bones, tracks, dirty, pc, stack, pending, time_arg,
                   visited, revisit, pre, last, registered, call>>

\* remove::<AnimationGraph> on entity 0
RemoveGraph ==
    /\ BetweenTicks
    /\ world.has_graph
    /\ world' = [world EXCEPT !.has_graph = FALSE]
    /\ UNCHANGED <<nodes, clips, bones, tracks, dirty, pc, stack, pending, time_arg,
                   visited, revisit, pre, last, registered, call>>

\* AnimationGraph::add_clip called on the graph of the World
WorldAddClip(clip, order) ==
    /\ BetweenTicks
    /\ world.has_graph
    /\ Len(clips) < WorldClips
    /\ add_clip(clip, order)
    /\ world' = [world EXCEPT !.changed = Mutated(@, "user")]
    /\ UNCHANGED call

\* evaluate_graph_system
EvaluateGraphSystem ==
    /\ Ready("evaluate")
    /\ clips' = IF world.has_graph /\ world.changed["evaluate"]
                THEN evaluate(nodes, clips) ELSE clips
    /\ world' = [world EXCEPT
                    !.sys["evaluate"] = "done",
                    !.changed = Seen(IF world.has_graph /\ world.changed["evaluate"]
                                     THEN Mutated(@, "evaluate") ELSE @, "evaluate")]
    /\ UNCHANGED <<nodes, bones, tracks, dirty, pc, stack, pending, time_arg,
                   visited, revisit, pre, last, registered, call>>

\* bind_hierarchy_system finds the graph changed and dirty
Binds == world.has_graph /\ world.changed["bind"] /\ dirty

\* bind_hierarchy_system
BindHierarchySystem ==
    /\ Ready("bind")
    /\ tracks' = IF Binds THEN BoundBones(world, tracks) ELSE tracks
    /\ dirty' = IF Binds THEN FALSE ELSE dirty
    /\ world' = [world EXCEPT
                    !.sys["bind"] = "done",
                    !.commands = IF Binds THEN @ \o BindCommands(world, tracks, Len(tracks))
                                 ELSE @,
                    !.changed = Seen(IF Binds THEN Mutated(@, "bind") ELSE @, "bind")]
    /\ UNCHANGED <<nodes, clips, bones, pc, stack, pending, time_arg,
                   visited, revisit, pre, last, registered, call>>

\* animate_entities_system
AnimateEntitiesSystem ==
    /\ Ready("animate")
    /\ world' = [world EXCEPT
                    !.sys["animate"] = "done",
                    !.commands =
                        @ \o RemoveCommands(IF world.has_graph THEN Dead(world, tracks)
                                            ELSE Bound(world), Len(world.bindings)),
                    !.animated =
                        [i \in DOMAIN world.bindings |->
                            IF world.has_graph /\ world.bindings[i].some
                            THEN animate_entity(world, tracks, i - 1, world.bindings[i].v)
                            ELSE "none"],
                    !.written =
                        { <<e, a>> \in Bound(world) \X DOMAIN FieldTypes :
                            /\ world.changed["animate"]
                            /\ animate_entity(world, tracks, e, world.bindings[e + 1].v) = "Ok"
                            /\ a \in WrittenFields(world, e,
                                                   tracks[world.bindings[e + 1].v.bone_id + 1]) },
                    !.changed = Seen(@, "animate")]
    /\ UNCHANGED <<nodes, clips, bones, tracks, dirty, pc, stack, pending, time_arg,
                   visited, revisit, pre, last, registered, call>>

\* the commands queued are applied: at a synchronisation point between two
\* systems or at the end of the schedule
ApplyDeferred ==
    /\ "commands" \in DOMAIN world
    /\ world.commands # <<>>
    /\ world' = [world EXCEPT !.bindings = Applied(@, world.commands), !.commands = <<>>]
    /\ UNCHANGED <<nodes, clips, bones, tracks, dirty, pc, stack, pending, time_arg,
                   visited, revisit, pre, last, registered, call>>

\* the run of PostUpdate is over
EndTick ==
    /\ "sys" \in DOMAIN world
    /\ \A s \in Systems : world.sys[s] = "done"
    /\ world.commands = <<>>
    /\ world' = [world EXCEPT !.sys = [s \in Systems |-> "waiting"],
                              !.written = {}, !.animated = <<>>]
    /\ UNCHANGED <<nodes, clips, bones, tracks, dirty, pc, stack, pending, time_arg,
                   visited, revisit, pre, last, registered, call>>

NextWorld ==
    \/ \E parent \in Entities : \E name \in Names : Spawn(parent, name)
    \/ \E entity \in Entities : \E name \in Names : Rename(entity, name)
    \/ RemoveGraph
    \/ \E clip \in WorldClipSet : \E order \in IterationOrders(DOMAIN clip) :
          WorldAddClip(clip, order)
    \/ EvaluateGraphSystem
    \/ BindHierarchySystem
    \/ AnimateEntitiesSystem
    \/ ApplyDeferred
    \/ EndTick

SpecWorld == InitWorld /\ [][NextWorld]_vars

\* system s runs in this step
Runs(s) == world.sys[s] = "waiting" /\ world'.sys[s] = "done"

\* the commands queued in this step
Queued == SubSeq(world'.commands, Len(world.commands) + 1, Len(world'.commands))

----------------------------------------------------------------------------
(* C24. Within one run of the schedule animate_entities_system runs only      *)
(* after evaluate_graph_system and bind_hierarchy_system have completed.      *)

C24_AnimateAfterBoth ==
    [][Runs("animate") =>
          /\ world.sys["evaluate"] = "done"
          /\ world.sys["bind"] = "done"
          /\ ~Runs("evaluate") /\ ~Runs("bind")]_vars

\* animate_entities_system has run on an entity with a BoneBinding, in a tick
\* in which the graph was evaluated
C24_Witness ==
    /\ world.sys["animate"] = "done"
    /\ \E i \in DOMAIN world.animated : world.animated[i] # "none"
    /\ \E c \in ClipIds : clips[c + 1].weight = One

----------------------------------------------------------------------------
(* C27. bind_hierarchy_system on a changed graph whose bones are dirty sets   *)
(* each bone's entity to the entity found by following the names of the       *)
(* bone's path through the children of the graph's entity (None when there is *)
(* none), inserts BoneBinding {graph, bone_id} on each entity found and       *)
(* clears the dirty flag; on a graph that is not dirty it changes no bone.    *)
(* add_clip sets the dirty flag exactly when it creates a new bone.           *)

\* the entity that has e among its children
ParentOf(w, e) == CHOOSE p \in 0 .. (Len(w.children) - 1) :
                      \E k \in DOMAIN w.children[p + 1] : w.children[p + 1][k] = e

\* the names on the way from the entity of the graph down to e
RECURSIVE NamePath(_, _)
NamePath(w, e) ==
    IF e = GRAPH THEN <<>> ELSE Append(NamePath(w, ParentOf(w, e)), w.names[e + 1])

\* no child of e's parent that comes before e has e's name, and so for every
\* entity on the way up to the graph
RECURSIVE Leading(_, _)
Leading(w, e) ==
    \/ e = GRAPH
    \/ /\ \A k \in DOMAIN w.children[ParentOf(w, e) + 1] :
              (/\ w.children[ParentOf(w, e) + 1][k] # e
               /\ w.names[w.children[ParentOf(w, e) + 1][k] + 1] = w.names[e + 1])
              => \E j \in 1 .. (k - 1) : w.children[ParentOf(w, e) + 1][j] = e
       /\ Leading(w, ParentOf(w, e))

\* the entities the path leads to
Resolved(w, path) ==
    { e \in 0 .. (Len(w.names) - 1) : NamePath(w, e) = EntityPath_iter(path) /\ Leading(w, e) }

\* bone is bound as its path resolves in w, and is otherwise as it was
BoundAsResolved(w, before, after) ==
    /\ after = [before EXCEPT !.entity = after.entity]
    /\ IF Resolved(w, before.path) = {} THEN after.entity = None
       ELSE after.entity.some /\ Resolved(w, before.path) = {after.entity.v}

C27_BindResolvesBones ==
    /\ [][(Runs("bind") /\ Binds) =>
             /\ DOMAIN tracks' = DOMAIN tracks
             /\ \A b \in DOMAIN tracks :
                   /\ BoundAsResolved(world, tracks[b], tracks'[b])
                   /\ tracks'[b].entity.some =>
                         \E k \in DOMAIN Queued :
                             Queued[k] = [op |-> "insert", entity |-> tracks'[b].entity.v,
                                          binding |-> [graph |-> GRAPH,
                                                       bone_id |-> tracks[b].id]]
             /\ \A k \in DOMAIN Queued :
                   /\ Queued[k].op = "insert"
                   /\ tracks'[Queued[k].binding.bone_id + 1].entity = Some(Queued[k].entity)
             /\ ~dirty']_vars
    /\ [][(Runs("bind") /\ ~dirty) => (tracks' = tracks /\ Queued = <<>> /\ ~dirty')]_vars
    /\ [][AddClipStep => (dirty' = (dirty \/ Len(tracks') > Len(tracks)))]_vars

\* the bone of path "arm" is bound to an entity two levels below the graph's,
\* and the entity has its BoneBinding
C27_Witness ==
    \E b \in DOMAIN tracks :
        /\ tracks[b].path = "arm"
        /\ tracks[b].entity.some
        /\ world.bindings[tracks[b].entity.v + 1] = Some([graph |-> GRAPH, bone_id |-> tracks[b].id])
        /\ ~dirty

----------------------------------------------------------------------------
(* C28. animate_entities_system removes the BoneBinding of exactly the        *)
(* entities whose animation failed in this tick: an entity animated with      *)
(* success keeps its binding, and a binding that is stale (its graph or bone  *)
(* is gone, the bone is bound to another entity, or no property could be      *)
(* animated) is removed.                                                      *)

\* animate_entity's result for the entity e that has a binding
Animated(e) == animate_entity(world, tracks, e, world.bindings[e + 1].v)

\* the entities whose BoneBinding this step queues the removal of
Removed == { Queued[k].entity : k \in { j \in DOMAIN Queued : Queued[j].op = "remove" } }

C28_RemovesExactlyFailed ==
    [][(Runs("animate") /\ world.has_graph) =>
          Removed = { e \in Bound(world) : Animated(e) # "Ok" }]_vars

\* what the code does: the removal is queued for the entities animated with
\* success, and for every entity when there is no graph
C28_RemovesSucceeded ==
    [][Runs("animate") =>
          Removed = IF world.has_graph THEN { e \in Bound(world) : Animated(e) = "Ok" }
                    ELSE Bound(world)]_vars

\* a binding whose bone is bound to no entity any more survives a run of
\* animate_entities_system
C28_StaleBindingKept ==
    /\ world.sys["animate"] = "done"
    /\ world.commands = <<>>
    /\ \E i \in DOMAIN world.animated :
          world.animated[i] = "BoneNoLongerBound" /\ world.bindings[i].some

====
